---- MODULE Spec2Model ----
(***************************************************************************)
(* Ticker extraction, inheritance and aggregation of wsb-analytics         *)
(* (src/app/nlp.py, src/app/db.py, src/reddit_scraper/app/db.py).          *)
(*                                                                         *)
(* Numbers: confidences and hype scores are Python floats in [0, 1]; the   *)
(* model keeps them as integers in units of 1e-5 (0.8 is 80000), so that   *)
(* every sum of the scorer and several hops of the 0.8 decay are exact.    *)
(* Strings are sequences of one-character strings.  An optional value      *)
(* (a JSON null, a NULL column, a missing dict key) is the empty tuple     *)
(* Null, a present value v is Some(v) = <<v>>.                             *)
(***************************************************************************)
EXTENDS Integers, Sequences, FiniteSets, TLC

VARIABLES
    sc,             \* scorer harness: inputs and results of the pure functions
    content_tickers,\* the mention store (table content_tickers): a set of rows
    tickers,        \* the aggregate table (table tickers): a set of rows
    parent_of,      \* comment id -> parent id (post or comment): the comment tree
    last,           \* trace of the last unit-processing run
    runs            \* number of unit-processing runs so far

vars == <<sc, content_tickers, tickers, parent_of, last, runs>>

(***************************************************************************)
(* Python helpers                                                          *)
(***************************************************************************)
Null == <<>>
Some(v) == <<v>>

Min(a, b) == IF a <= b THEN a ELSE b
Max(a, b) == IF a >= b THEN a ELSE b

\* the upper case of one character where it is one character (the alphabet of
\* the model); re.IGNORECASE compares characters this way
UpperChar(ch) ==
    CASE ch = "a" -> "A"
      [] ch = "g" -> "G"
      [] ch = "m" -> "M"
      [] ch = "t" -> "T"
      [] ch = "s" -> "S"
      [] ch = "l" -> "L"
      [] ch = "o" -> "O"
      [] ch = "n" -> "N"
      [] OTHER -> ch

\* str.upper() of one character: "\u00df" (written "ß") becomes "SS", two characters
UpperOf(ch) == IF ch = "ß" THEN <<"S", "S">> ELSE <<UpperChar(ch)>>

\* str.upper()
RECURSIVE Upper(_)
Upper(s) == IF s = <<>> THEN <<>> ELSE UpperOf(Head(s)) \o Upper(Tail(s))

IsSpace(ch) == ch = " "

\* str.strip() is non-empty: some character is not whitespace
StripNonEmpty(s) == \E i \in 1..Len(s) : ~IsSpace(s[i])

\* Python truthiness of a str-or-None value followed by .strip()
\* (company_name and company_name.strip())
NameRecognized(name) == name # Null /\ Len(name[1]) > 0 /\ StripNonEmpty(name[1])

(***************************************************************************)
(* Confidence Scorer: calculate_extraction_confidence                      *)
(***************************************************************************)
BaseConfidence == 80000
CompanyBonus == 10000
ShortPenalty == 10000
LongBonus == 5000
SpanPenalty == 20000
ConfFloor == 30000
ConfCeil == 100000
ShortLen == 2
LongLen == 4

\* max(0.3, min(1.0, base_confidence))
ClampConfidence(c) == Max(ConfFloor, Min(ConfCeil, c))

\* a scorer that forgets the clamp and adds the span penalty
CalculateExtractionConfidenceUnclamped(ticker, company_name, hype_score, span_found) ==
    LET c1 == BaseConfidence + (IF NameRecognized(company_name) THEN CompanyBonus ELSE 0)
        c2 == IF Len(ticker) <= ShortLen THEN c1 - ShortPenalty
              ELSE IF Len(ticker) >= LongLen THEN c1 + LongBonus ELSE c1
        c3 == IF ~span_found THEN c2 + SpanPenalty ELSE c2
    IN  c3

\* a scorer that leaves out the span penalty
CalculateExtractionConfidenceNoPenalty(ticker, company_name, hype_score, span_found) ==
    LET c1 == BaseConfidence + (IF NameRecognized(company_name) THEN CompanyBonus ELSE 0)
        c2 == IF Len(ticker) <= ShortLen THEN c1 - ShortPenalty
              ELSE IF Len(ticker) >= LongLen THEN c1 + LongBonus ELSE c1
    IN  ClampConfidence(c2)

CalculateExtractionConfidence(ticker, company_name, hype_score, span_found) ==
    LET c1 == BaseConfidence + (IF NameRecognized(company_name) THEN CompanyBonus ELSE 0)
        c2 == IF Len(ticker) <= ShortLen THEN c1 - ShortPenalty
              ELSE IF Len(ticker) >= LongLen THEN c1 + LongBonus ELSE c1
        c3 == IF ~span_found THEN c2 - SpanPenalty ELSE c2
    IN  ClampConfidence(c3)

(***************************************************************************)
(* Inheritance Engine, pure part: inherit_tickers_with_context             *)
(***************************************************************************)
HypeThreshold == 30000
ContextBoost == 20000
ContextCap == 75000

\* a cap at the probability bound 1.0 instead of 0.75
ContextualConfidenceCapOne(contextual_hype) == Min(ConfCeil, contextual_hype + ContextBoost)

\* min(0.75, contextual_hype + 0.2)
ContextualConfidence(contextual_hype) == Min(ContextCap, contextual_hype + ContextBoost)

\* an inheritance that returns from inside the loop, after the first ticker
InheritTickersWithContextFirstOnly(post_tickers, contextual_hype, post_reddit_id) ==
    IF Len(post_tickers) = 0 \/ contextual_hype < HypeThreshold THEN <<>>
    ELSE <<[ticker |-> Upper(post_tickers[1].ticker),
            span |-> <<-1, -1>>,
            confidence |-> ContextualConfidence(contextual_hype),
            method |-> "contextual_inheritance",
            hype_score |-> contextual_hype,
            company_name |-> post_tickers[1].company_name,
            inheritance_source |-> "post_context",
            context_post_id |-> post_reddit_id]>>

\* post_tickers: the rows read from the store (ticker, confidence, hype_score,
\* company_name); the result: one ticker dict per row
InheritTickersWithContext(post_tickers, contextual_hype, post_reddit_id) ==
    IF Len(post_tickers) = 0 \/ contextual_hype < HypeThreshold THEN <<>>
    ELSE [i \in 1..Len(post_tickers) |->
            [ticker |-> Upper(post_tickers[i].ticker),
             span |-> <<-1, -1>>,
             confidence |-> ContextualConfidence(contextual_hype),
             method |-> "contextual_inheritance",
             hype_score |-> contextual_hype,
             company_name |-> post_tickers[i].company_name,
             inheritance_source |-> "post_context",
             context_post_id |-> post_reddit_id]]

(***************************************************************************)
(* Span Finder: find_ticker_span.  Positions are Python's (0-based start,  *)
(* exclusive end); (-1, -1) is "not found".                                *)
(***************************************************************************)
WordChars == {"A", "G", "M", "T", "S", "L", "O", "N",
              "a", "g", "m", "t", "s", "l", "o", "n", "_", "ß"}
IsWord(ch) == ch \in WordChars

\* regex \b between the k-th and the (k+1)-th character of text (0 <= k <= Len)
WordBoundary(text, k) ==
    (k >= 1 /\ IsWord(text[k])) # (k < Len(text) /\ IsWord(text[k + 1]))

\* pat matches text at 1-based position i, ignoring case
MatchesAt(text, pat, i) ==
    /\ i >= 1
    /\ i + Len(pat) - 1 <= Len(text)
    /\ \A j \in 1..Len(pat) : UpperChar(text[i + j - 1]) = UpperChar(pat[j])

SetMin(S) == CHOOSE x \in S : \A y \in S : x <= y

\* s equals the characters of text from 1-based position i on
EqualsAt(text, s, i) ==
    /\ i + Len(s) - 1 <= Len(text)
    /\ \A j \in 1..Len(s) : text[i + j - 1] = s[j]

\* str.find: the 0-based index of the first occurrence, -1 if there is none
Find(text, s) ==
    IF \E i \in 1..(Len(text) + 1) : EqualsAt(text, s, i)
    THEN SetMin({i \in 1..(Len(text) + 1) : EqualsAt(text, s, i)}) - 1
    ELSE -1

\* Strategy 3, lines 180-184: the index is one of text.upper(), the length is
\* the one of ticker
FindUpper(start, n) == IF start # -1 THEN <<start, start + n>> ELSE <<-1, -1>>

FindTickerSpan(text, ticker) ==
    LET n == Len(ticker)
        \* Strategy 1: \$TICKER\b
        dollar == {i \in 1..Len(text) :
                      /\ text[i] = "$"
                      /\ MatchesAt(text, ticker, i + 1)
                      /\ WordBoundary(text, i + n)}
        \* Strategy 2: \bTICKER\b
        word == {i \in 1..Len(text) :
                      /\ MatchesAt(text, ticker, i)
                      /\ WordBoundary(text, i - 1)
                      /\ WordBoundary(text, i + n - 1)}
    IN  IF Len(text) = 0 \/ n = 0 THEN <<-1, -1>>
        ELSE IF dollar # {} THEN <<SetMin(dollar) - 1, SetMin(dollar) + n>>
        ELSE IF word # {} THEN <<SetMin(word) - 1, SetMin(word) - 1 + n>>
        ELSE FindUpper(Find(Upper(text), Upper(ticker)), n)

(***************************************************************************)
(* Direct Extractor: llm_extractor / extract_tickers.  The backend's       *)
(* answer is an input: resp.ok is FALSE when no parsed response was        *)
(* obtained (call failure, or no valid JSON after the retry); otherwise    *)
(* resp.hype_score and resp.tickers (entries with symbol and name) are the *)
(* parsed response.                                                        *)
(***************************************************************************)
LlmExtractor(text, resp) ==
    IF ~resp.ok THEN <<>>
    ELSE [i \in 1..Len(resp.tickers) |->
            LET symbol == Upper(resp.tickers[i].symbol)
                company_name == resp.tickers[i].name
                span == FindTickerSpan(text, symbol)
            IN  [ticker |-> symbol,
                 span |-> span,
                 confidence |-> CalculateExtractionConfidence(
                                    symbol, company_name, resp.hype_score, span[1] # -1),
                 method |-> "llm",
                 hype_score |-> resp.hype_score,
                 company_name |-> company_name]]

ExtractTickers(text, resp) == LlmExtractor(text, resp)

(***************************************************************************)
(* Contextual Hype Analyzer: analyze_contextual_hype.  hresp is the        *)
(* backend's answer: hresp.ok is FALSE when no score was obtained (call    *)
(* failure or no valid JSON after the retry), else hresp.value is the      *)
(* reported contextual_hype.                                               *)
(***************************************************************************)
MinHypeTextLen == 3

\* len(text.strip())
StripLen(text) ==
    LET solid == {i \in 1..Len(text) : ~IsSpace(text[i])}
    IN  IF solid = {} THEN 0
        ELSE (CHOOSE x \in solid : \A y \in solid : y <= x) - SetMin(solid) + 1

\* the short-circuit of line 235: no backend call
HypeShortCircuit(text) == Len(text) = 0 \/ StripLen(text) < MinHypeTextLen

\* an analyzer that returns the reported score as it is
AnalyzeContextualHypeUnclamped(text, hresp) ==
    IF HypeShortCircuit(text) THEN 0
    ELSE IF ~hresp.ok THEN 0
    ELSE hresp.value

\* lines 235-236 and 296-314: max(0.0, min(1.0, float(contextual_hype)))
AnalyzeContextualHype(text, hresp) ==
    IF HypeShortCircuit(text) THEN 0
    ELSE IF ~hresp.ok THEN 0
    ELSE Max(0, Min(100000, hresp.value))

(***************************************************************************)
(* Content store: table content_tickers, a set of rows, unique on          *)
(* (kind, content_reddit_id, ticker).  An upsert payload is a function     *)
(* from the columns it provides to their values.                           *)
(***************************************************************************)
Columns == {"kind", "content_reddit_id", "ticker", "confidence", "span_start",
            "span_end", "method", "hype_score", "company_name",
            "inheritance_source", "context_post_id", "source", "inherited_from"}
BasicColumns == {"kind", "content_reddit_id", "ticker", "confidence", "span_start",
                 "span_end", "method"}

ConflictKey(r) == <<r["kind"], r["content_reddit_id"], r["ticker"]>>

\* an insert that ignores the conflict target: the old row stays beside the new
UpsertRowAppend(table, payload) ==
    table \cup {[c \in Columns |-> IF c \in DOMAIN payload THEN payload[c] ELSE Null]}

\* INSERT ... ON CONFLICT (kind, content_reddit_id, ticker) DO UPDATE: the
\* provided columns overwrite, the others keep their value (NULL on insert)
UpsertRow(table, payload) ==
    LET old == {r \in table : ConflictKey(r) = ConflictKey(payload)}
    IN  IF old = {}
        THEN table \cup {[c \in Columns |->
                            IF c \in DOMAIN payload THEN payload[c] ELSE Null]}
        ELSE (table \ old) \cup
             {[c \in Columns |-> IF c \in DOMAIN payload THEN payload[c] ELSE r[c]]
                : r \in old}

RECURSIVE UpsertAll(_, _)
UpsertAll(table, rows) ==
    IF rows = <<>> THEN table
    ELSE UpsertAll(UpsertRow(table, Head(rows)), Tail(rows))

\* two rows of one batch with the same conflict key: the store rejects the batch
HasDuplicateKeys(rows) ==
    \E i, j \in 1..Len(rows) : i < j /\ ConflictKey(rows[i]) = ConflictKey(rows[j])

\* .upsert(rows, on_conflict="kind,content_reddit_id,ticker").execute()
\* fail: the store is unavailable for this call
Upsert(table, rows, fail) ==
    IF fail \/ HasDuplicateKeys(rows)
    THEN [ok |-> FALSE, table |-> table]
    ELSE [ok |-> TRUE, table |-> UpsertAll(table, rows)]

\* the sequences that list every element of S once
Orderings(S) ==
    {q \in [1..Cardinality(S) -> S] : \A i, j \in 1..Cardinality(S) : q[i] = q[j] => i = j}

\* .order("confidence", desc=True): ties in any order
OrderingsByConfidenceDesc(S) ==
    {q \in Orderings(S) :
        \A i, j \in 1..Cardinality(S) : i < j => q[i]["confidence"] >= q[j]["confidence"]}

(***************************************************************************)
(* store_tickers_to_db                                                     *)
(***************************************************************************)
\* a collapse with >= : on a tie the latest occurrence wins
RECURSIVE LatestBestOccurrences(_, _)
LatestBestOccurrences(items, best) ==
    IF items = <<>> THEN best
    ELSE LET it == Head(items)
             idx == {j \in 1..Len(best) : best[j].ticker = it.ticker}
         IN  IF idx = {} THEN LatestBestOccurrences(Tail(items), Append(best, it))
             ELSE LET j == CHOOSE j \in idx : TRUE
                  IN  IF it.confidence >= best[j].confidence
                      THEN LatestBestOccurrences(Tail(items), [best EXCEPT ![j] = it])
                      ELSE LatestBestOccurrences(Tail(items), best)

\* lines 252-257: best = {}; for it in tickers: keep the highest-confidence
\* occurrence of each ticker.  best is the dict in insertion order.
RECURSIVE BestOccurrences(_, _)
BestOccurrences(items, best) ==
    IF items = <<>> THEN best
    ELSE LET it == Head(items)
             idx == {j \in 1..Len(best) : best[j].ticker = it.ticker}
         IN  IF idx = {} THEN BestOccurrences(Tail(items), Append(best, it))
             ELSE LET j == CHOOSE j \in idx : TRUE
                  IN  IF it.confidence > best[j].confidence
                      THEN BestOccurrences(Tail(items), [best EXCEPT ![j] = it])
                      ELSE BestOccurrences(Tail(items), best)

\* lines 261-284: the row of one collapsed occurrence
RowData(kind, content_reddit_id, it, post_reddit_id) ==
    LET span == IF "span" \in DOMAIN it THEN it.span ELSE <<-1, -1>>
        dom == BasicColumns
               \cup (IF "hype_score" \in DOMAIN it THEN {"hype_score"} ELSE {})
               \cup (IF "company_name" \in DOMAIN it THEN {"company_name"} ELSE {})
               \cup (IF "inheritance_source" \in DOMAIN it
                        THEN {"inheritance_source"} ELSE {})
               \cup (IF "context_post_id" \in DOMAIN it
                        \/ (post_reddit_id # Null /\ kind = "comment")
                        THEN {"context_post_id"} ELSE {})
    IN  [c \in dom |->
            CASE c = "kind" -> kind
              [] c = "content_reddit_id" -> content_reddit_id
              [] c = "ticker" -> it.ticker
              [] c = "confidence" -> it.confidence
              [] c = "span_start" -> IF span[1] # -1 THEN Some(span[1]) ELSE Null
              [] c = "span_end" -> IF span[2] # -1 THEN Some(span[2]) ELSE Null
              [] c = "method" -> it.method
              [] c = "hype_score" -> Some(it.hype_score)
              [] c = "company_name" -> it.company_name
              [] c = "inheritance_source" -> Some(it.inheritance_source)
              [] c = "context_post_id" ->
                    IF "context_post_id" \in DOMAIN it THEN Some(it.context_post_id)
                    ELSE post_reddit_id]

\* the rows store_tickers_to_db builds from its input list
StoreRows(kind, content_reddit_id, items, post_reddit_id) ==
    LET best == BestOccurrences(items, <<>>)
    IN  [i \in 1..Len(best) |-> RowData(kind, content_reddit_id, best[i], post_reddit_id)]

\* lines 296-299: the reduced field set of the old schema
BasicRow(row) == [c \in (DOMAIN row) \cap BasicColumns |-> row[c]]

\* lines 301-303: the retry with the basic fields; its exception is not caught
StoreRetry(table, rows, second) ==
    IF second.ok
    THEN [table |-> second.table, rows |-> rows, raised |-> FALSE, attempts |-> 2]
    ELSE [table |-> table, rows |-> <<>>, raised |-> TRUE, attempts |-> 2]

\* an exception handler that retries with the basic fields whatever the error
StoreAttemptRetryAlways(table, rows, first, mode) ==
    IF first.ok
    THEN [table |-> first.table, rows |-> rows, raised |-> FALSE, attempts |-> 1]
    ELSE StoreRetry(table, rows,
                    Upsert(table, [i \in 1..Len(rows) |-> BasicRow(rows[i])],
                           mode # "column_ok"))

\* lines 287-305: the upsert, and what follows its exception
StoreAttempt(table, rows, first, mode) ==
    IF first.ok
    THEN [table |-> first.table, rows |-> rows, raised |-> FALSE, attempts |-> 1]
    ELSE IF mode \in {"column_ok", "column_error"}
    THEN StoreRetry(table, rows,
                    Upsert(table, [i \in 1..Len(rows) |-> BasicRow(rows[i])],
                           mode # "column_ok"))
    ELSE [table |-> table, rows |-> <<>>, raised |-> TRUE, attempts |-> 1]

StoreUpsert(table, rows, mode) ==
    StoreAttempt(table, rows, Upsert(table, rows, mode # "ok"), mode)

\* post_reddit_id is Null or Some(id).  mode is what the store does with the
\* upserts of this call: "ok"; "error" (the first upsert fails, not for a
\* column); "column_ok" (the first upsert is rejected for a missing column, the
\* retry with the basic fields succeeds); "column_error" (the retry fails too).
\* Result: the table, the rows returned, whether an exception left the
\* function, and the number of upsert attempts.
StoreTickersToDb(table, kind, content_reddit_id, items, post_reddit_id, mode) ==
    IF items = <<>>
    THEN [table |-> table, rows |-> <<>>, raised |-> FALSE, attempts |-> 0]
    ELSE StoreUpsert(table, StoreRows(kind, content_reddit_id, items, post_reddit_id),
                     mode)

(***************************************************************************)
(* Aggregator: update_ticker_aggregation on table tickers (one row per     *)
(* ticker).  Scores are rounded to two decimals, multiples of 1000 here.   *)
(***************************************************************************)
\* round(num / den, 2) in units of 1e-5, an exact tie going to the even
\* hundredth (Python rounds the binary float, so a decimal tie may go either
\* way there)
RoundHundredths(num, den) ==
    LET unit == 1000 * den
        f == num \div unit
        rem == num - f * unit
    IN  IF 2 * rem < unit THEN f * 1000
        ELSE IF 2 * rem > unit THEN (f + 1) * 1000
        ELSE IF f % 2 = 0 THEN f * 1000 ELSE (f + 1) * 1000

\* Python truthiness of a str-or-None value
Truthy(name) == name # Null /\ Len(name[1]) > 0

\* lines 321-364 for one ticker dict
UpdateOneTicker(agg, ticker_data, kind) ==
    LET ticker == Upper(ticker_data.ticker)
        hype_score == IF "hype_score" \in DOMAIN ticker_data
                      THEN ticker_data.hype_score ELSE 0
        company_name == IF "company_name" \in DOMAIN ticker_data
                        THEN ticker_data.company_name ELSE Some(<<>>)
        existing == {r \in agg : r.ticker = ticker}
    IN  IF Len(ticker) = 0 THEN agg
        ELSE IF existing # {}
        THEN LET current == CHOOSE r \in existing : TRUE
                 new_total == current.total_mentions + 1
             IN  (agg \ existing) \cup
                 {[ticker |-> ticker,
                   company_name |-> IF Truthy(company_name) THEN company_name
                                    ELSE current.company_name,
                   total_mentions |-> new_total,
                   total_posts |-> current.total_posts + (IF kind = "post" THEN 1 ELSE 0),
                   total_comments |->
                        current.total_comments + (IF kind = "comment" THEN 1 ELSE 0),
                   avg_hype_score |->
                        RoundHundredths(current.avg_hype_score * current.total_mentions
                                            + hype_score, new_total),
                   max_hype_score |->
                        RoundHundredths(Max(current.max_hype_score, hype_score), 1)]}
        ELSE agg \cup
             {[ticker |-> ticker,
               company_name |-> company_name,
               total_mentions |-> 1,
               total_posts |-> IF kind = "post" THEN 1 ELSE 0,
               total_comments |-> IF kind = "comment" THEN 1 ELSE 0,
               avg_hype_score |-> RoundHundredths(hype_score, 1),
               max_hype_score |-> RoundHundredths(hype_score, 1)]}

RECURSIVE UpdateEach(_, _, _)
UpdateEach(agg, items, kind) ==
    IF items = <<>> THEN agg
    ELSE UpdateEach(UpdateOneTicker(agg, Head(items), kind), Tail(items), kind)

\* fail: Null, or Some(k) when a store call of the function raises after k
\* tickers of the list were handled (the select or the write of ticker k + 1
\* fails).  The exception is caught at line 366: the tickers handled before it
\* stay written, the remaining ones are not looked at.
UpdateTickerAggregation(agg, items, kind, fail) ==
    IF fail = Null THEN UpdateEach(agg, items, kind)
    ELSE UpdateEach(agg, SubSeq(items, 1, Min(fail[1], Len(items))), kind)

\* an update_ticker_aggregation without the try of line 319: the exception of
\* the store call leaves the function
AggregationRaisesUncaught(items, fail) == fail # Null /\ fail[1] < Len(items)

\* whether an exception leaves update_ticker_aggregation: the try of line 319
\* encloses the whole body and line 366 catches every Exception
AggregationRaises(items, fail) == FALSE

(***************************************************************************)
(* Inheritance Engine, store part                                          *)
(***************************************************************************)
InheritCap == 50000

\* an inheritance that decays without the cap
InheritedConfidenceUncapped(parent_confidence) == (parent_confidence * 4) \div 5

\* min(0.50, float(parent["confidence"]) * 0.8)
InheritedConfidence(parent_confidence) ==
    Min(InheritCap, (parent_confidence * 4) \div 5)

\* child rows that copy the parent's confidence as it is
InheritRowsUnsoftened(parents, parent_reddit_id, child_reddit_id) ==
    [i \in 1..Len(parents) |->
        [kind |-> "comment",
         content_reddit_id |-> child_reddit_id,
         ticker |-> parents[i]["ticker"],
         confidence |-> parents[i]["confidence"],
         method |-> "inherit",
         source |-> Some("inherited"),
         inherited_from |-> Some(parent_reddit_id)]]

\* lines 120-131: the child rows built from the parent's rows
InheritRows(parents, parent_reddit_id, child_reddit_id) ==
    [i \in 1..Len(parents) |->
        [kind |-> "comment",
         content_reddit_id |-> child_reddit_id,
         ticker |-> parents[i]["ticker"],
         confidence |-> InheritedConfidence(parents[i]["confidence"]),
         method |-> "inherit",
         source |-> Some("inherited"),
         inherited_from |-> Some(parent_reddit_id)]]

\* the rows of the store the select of lines 108-114 matches
ParentRows(table, parent_reddit_id) ==
    {r \in table : r["content_reddit_id"] = parent_reddit_id}

\* lines 134-139: the upsert of the child rows
InheritUpsert(table, rows, up) ==
    IF up.ok THEN [table |-> up.table, count |-> Len(rows), raised |-> FALSE]
    ELSE [table |-> table, count |-> 0, raised |-> TRUE]

InheritStore(table, rows, fault) ==
    InheritUpsert(table, rows, Upsert(table, rows, fault = "upsert"))

\* inherit_parent_tickers: parents is the select's answer (an ordering of
\* ParentRows); fault is "none", "select" or "upsert".  Result: the table, the
\* count returned, whether an exception left the function.
InheritParentTickers(table, parents, parent_reddit_id, child_reddit_id, fault) ==
    IF fault = "select" THEN [table |-> table, count |-> 0, raised |-> TRUE]
    ELSE IF parents = <<>> THEN [table |-> table, count |-> 0, raised |-> FALSE]
    ELSE InheritStore(table, InheritRows(parents, parent_reddit_id, child_reddit_id),
                      fault)

\* the rows of the store the select of lines 187-193 matches
PostRows(table, post_reddit_id) ==
    {r \in table : r["content_reddit_id"] = post_reddit_id /\ r["kind"] = "post"}

(***************************************************************************)
(* try_contextual_inheritance and map_tickers_with_context.  faults names  *)
(* what the store does during the call: faults.ctx_select (the select of   *)
(* the post's rows fails), faults.store (the mode of store_tickers_to_db), *)
(* faults.agg (the Aggregator's store fails: Null or Some(k)), faults.inh   *)
(* (the fault of inherit_parent_tickers).                                  *)
(***************************************************************************)
\* the result of a call that did nothing
Nothing(table, agg) ==
    [table |-> table, agg |-> agg, found |-> <<>>, raised |-> FALSE,
     hype_calls |-> 0, backend_calls |-> 0, hype |-> 0,
     post_tickers |-> <<>>, inherited |-> <<>>, agg_fed |-> <<>>,
     ctx_error |-> FALSE, store_attempts |-> 0]

\* lines 212-232: the inherited tickers are stored and fed to the Aggregator;
\* an exception of the store or of the Aggregator is caught and the result is
\* empty
ContextStored(analyzed, agg, inherited_tickers, st, faults) ==
    IF st.raised
    THEN [analyzed EXCEPT !.inherited = inherited_tickers,
                          !.ctx_error = TRUE,
                          !.store_attempts = st.attempts]
    ELSE IF AggregationRaises(inherited_tickers, faults.agg)
    THEN [analyzed EXCEPT !.table = st.table,
                          !.agg = UpdateTickerAggregation(
                                    agg, inherited_tickers, "comment", faults.agg),
                          !.inherited = inherited_tickers,
                          !.agg_fed = inherited_tickers,
                          !.ctx_error = TRUE,
                          !.store_attempts = st.attempts]
    ELSE [analyzed EXCEPT !.table = st.table,
                          !.agg = UpdateTickerAggregation(
                                    agg, inherited_tickers, "comment", faults.agg),
                          !.found = st.rows,
                          !.inherited = inherited_tickers,
                          !.agg_fed = inherited_tickers,
                          !.store_attempts = st.attempts]

\* lines 206-228
ContextInherit(analyzed, table, agg, comment_reddit_id, post_reddit_id, inherited_tickers, faults) ==
    IF inherited_tickers = <<>> THEN analyzed
    ELSE ContextStored(analyzed, agg, inherited_tickers,
                       StoreTickersToDb(table, "comment", comment_reddit_id,
                                        inherited_tickers, Some(post_reddit_id),
                                        faults.store),
                       faults)

\* lines 200-210: the hype of the comment decides
ContextAnalyzed(table, agg, comment_reddit_id, comment_text, post_reddit_id, post_tickers, contextual_hype, faults) ==
    IF contextual_hype < HypeThreshold
    THEN [Nothing(table, agg) EXCEPT
            !.post_tickers = post_tickers, !.hype_calls = 1,
            !.backend_calls = IF HypeShortCircuit(comment_text) THEN 0 ELSE 1,
            !.hype = contextual_hype]
    ELSE ContextInherit(
            [Nothing(table, agg) EXCEPT
                !.post_tickers = post_tickers, !.hype_calls = 1,
                !.backend_calls = IF HypeShortCircuit(comment_text) THEN 0 ELSE 1,
                !.hype = contextual_hype],
            table, agg, comment_reddit_id, post_reddit_id,
            InheritTickersWithContext(post_tickers, contextual_hype, post_reddit_id),
            faults)

\* a try_contextual_inheritance that analyses the comment before it looks at
\* the post's rows
TryContextualInheritanceHypeFirst(table, agg, comment_reddit_id, comment_text, post_reddit_id, post_tickers, hresp, faults) ==
    IF faults.ctx_select THEN [Nothing(table, agg) EXCEPT !.ctx_error = TRUE]
    ELSE ContextAnalyzed(table, agg, comment_reddit_id, comment_text, post_reddit_id,
                         post_tickers, AnalyzeContextualHype(comment_text, hresp),
                         faults)

\* try_contextual_inheritance.  post_tickers: the select's answer, an
\* ordering of PostRows
TryContextualInheritance(table, agg, comment_reddit_id, comment_text, post_reddit_id, post_tickers, hresp, faults) ==
    IF faults.ctx_select THEN [Nothing(table, agg) EXCEPT !.ctx_error = TRUE]
    ELSE IF post_tickers = <<>> THEN Nothing(table, agg)
    ELSE ContextAnalyzed(table, agg, comment_reddit_id, comment_text, post_reddit_id,
                         post_tickers, AnalyzeContextualHype(comment_text, hresp),
                         faults)

\* lines 159-163: direct tickers are stored and fed to the Aggregator; an
\* exception of the store or of the Aggregator leaves map_tickers_with_context
DirectStored(table, agg, kind, direct_tickers, st, faults) ==
    IF st.raised
    THEN [Nothing(table, agg) EXCEPT !.raised = TRUE, !.store_attempts = st.attempts]
    ELSE IF AggregationRaises(direct_tickers, faults.agg)
    THEN [Nothing(table, agg) EXCEPT
            !.table = st.table,
            !.agg = UpdateTickerAggregation(agg, direct_tickers, kind, faults.agg),
            !.raised = TRUE,
            !.agg_fed = direct_tickers,
            !.store_attempts = st.attempts]
    ELSE [Nothing(table, agg) EXCEPT
            !.table = st.table,
            !.agg = UpdateTickerAggregation(agg, direct_tickers, kind, faults.agg),
            !.found = st.rows,
            !.agg_fed = direct_tickers,
            !.store_attempts = st.attempts]

\* lines 159-169, direct_tickers being the extractor's result
MapDirectOrContext(table, agg, kind, content_reddit_id, text, post_reddit_id, direct_tickers, post_tickers, hresp, faults) ==
    IF direct_tickers # <<>>
    THEN DirectStored(table, agg, kind, direct_tickers,
                      StoreTickersToDb(table, kind, content_reddit_id, direct_tickers,
                                       post_reddit_id, faults.store),
                      faults)
         @@ [direct |-> direct_tickers, ctx_calls |-> 0]
    ELSE IF kind = "comment" /\ post_reddit_id # Null
    THEN TryContextualInheritance(table, agg, content_reddit_id, text,
                                  post_reddit_id[1], post_tickers, hresp, faults)
         @@ [direct |-> direct_tickers, ctx_calls |-> 1]
    ELSE Nothing(table, agg) @@ [direct |-> direct_tickers, ctx_calls |-> 0]

\* map_tickers_with_context.  post_reddit_id is Null or Some(id); resp and
\* hresp are the backend's answers, post_tickers the select's answer.
MapTickersWithContext(table, agg, kind, content_reddit_id, text, post_reddit_id, resp, post_tickers, hresp, faults) ==
    MapDirectOrContext(table, agg, kind, content_reddit_id, text, post_reddit_id,
                       ExtractTickers(text, resp), post_tickers, hresp, faults)

\* the scorer harness at rest
ScIdle == [pc |-> "idle", ticker |-> <<>>, company_name |-> Null, span_found |-> FALSE,
           hype |-> 0, conf |-> 0, prev |-> 0, inherited |-> <<>>]

(***************************************************************************)
(* The unit pipeline: one post and its comment tree, processed a unit at a *)
(* time by map_submission and by the loop of map_comments.                 *)
(***************************************************************************)
NumComments == 2
MaxRuns == 3

ThePost == <<"p", 1>>
Comments == {<<"c", i>> : i \in 1..NumComments}
NoUnit == <<"none", 0>>

\* the trees: a comment's parent is the post or an earlier comment
Trees ==
    {f \in [Comments -> {ThePost} \cup Comments] :
        \A c \in Comments : f[c] = ThePost \/ f[c][2] < c[2]}

\* unit texts (post title and body, or comment body): "GM", "$tsla GM moon"
Texts == {<<"G", "M">>,
          <<"$", "t", "s", "l", "a", " ", "G", "M", " ", "m", "o", "o", "n">>}

\* ticker entries the backend may report
EntryTsla == [symbol |-> <<"T", "S", "L", "A">>, name |-> Some(<<"T">>)]
EntryTslaLower == [symbol |-> <<"t", "s", "l", "a">>, name |-> Some(<<>>)]
EntryTslaOther == [symbol |-> <<"T", "S", "L", "A">>, name |-> Some(<<"T", "S">>)]
EntryGm == [symbol |-> <<"G", "M">>, name |-> Null]
EntryNoSymbol == [symbol |-> <<>>, name |-> Some(<<>>)]

\* what extract_tickers gets from the backend: no parsed response, an empty
\* ticker list, one ticker, two tickers
ExtractResponses ==
    {[ok |-> FALSE, hype_score |-> 0, tickers |-> <<>>]}
    \cup [ok : {TRUE}, hype_score : {80000},
          tickers : {<<>>, <<EntryTsla>>, <<EntryGm, EntryTsla>>}]

\* what analyze_contextual_hype gets from the backend
HypeResponses ==
    {[ok |-> FALSE, value |-> 0]}
    \cup [ok : {TRUE}, value : {29000, 30000, 85000}]
NoHypeResponse == [ok |-> FALSE, value |-> 0]

NoFault == [ctx_select |-> FALSE, store |-> "ok", agg |-> Null, inh |-> "none"]
\* the faults of a call that finds direct tickers
DirectFaults == {NoFault, [NoFault EXCEPT !.store = "error"]}
\* the faults of a call that finds none
ContextFaults ==
    {NoFault, [NoFault EXCEPT !.store = "error"], [NoFault EXCEPT !.ctx_select = TRUE],
     [NoFault EXCEPT !.inh = "upsert"]}

NoRun == [unit |-> NoUnit, kind |-> "none", direct |-> <<>>, found |-> <<>>,
          raised |-> FALSE, hype_calls |-> 0, backend_calls |-> 0, hype |-> 0,
          ctx_calls |-> 0, post_tickers |-> <<>>, inherited |-> <<>>,
          agg_fed |-> <<>>, ctx_error |-> FALSE, store_attempts |-> 0,
          inh_calls |-> 0, parents |-> <<>>, inh_count |-> 0, inh_raised |-> FALSE,
          again |-> FALSE, path |-> "none"]

\* a run that wrote by contextual inheritance, a run that wrote by ancestor
\* inheritance
WroteContextual(l) == l.ctx_calls = 1 /\ l.found # <<>>
WroteAncestor(l) == l.inh_calls = 1 /\ l.inh_count > 0

\* two runs of the same inheritance on the same child: the same strategy, and
\* for contextual inheritance the same hype score of the child's text
SameInheritance(l1, l2) ==
    /\ l1.unit = l2.unit
    /\ \/ WroteContextual(l1) /\ WroteContextual(l2) /\ l1.hype = l2.hype
       \/ WroteAncestor(l1) /\ WroteAncestor(l2)

Init ==
    /\ sc = ScIdle
    /\ content_tickers = {}
    /\ tickers = {}
    /\ parent_of \in Trees
    /\ last = NoRun
    /\ runs = 0

\* the trace of a map_tickers_with_context call
RunTrace(unit, kind, r) ==
    [NoRun EXCEPT !.unit = unit, !.kind = kind, !.path = "scrape", !.direct = r.direct,
                  !.found = r.found, !.raised = r.raised,
                  !.hype_calls = r.hype_calls, !.backend_calls = r.backend_calls,
                  !.hype = r.hype, !.ctx_calls = r.ctx_calls,
                  !.post_tickers = r.post_tickers, !.inherited = r.inherited,
                  !.agg_fed = r.agg_fed, !.ctx_error = r.ctx_error,
                  !.store_attempts = r.store_attempts]

\* the trace of a run, with the note whether it repeats the inheritance of the
\* run before it
Traced(t) == [t EXCEPT !.again = SameInheritance(last, t)]

\* the state after a run of map_tickers_with_context alone
Commit(unit, kind, r) ==
    /\ content_tickers' = r.table
    /\ tickers' = r.agg
    /\ last' = Traced(RunTrace(unit, kind, r))

\* the state after a run that went on to inherit_parent_tickers
CommitFallback(c, r, parents, inh) ==
    /\ content_tickers' = inh.table
    /\ tickers' = r.agg
    /\ last' = Traced([RunTrace(c, "comment", r) EXCEPT
                            !.inh_calls = 1,
                            !.parents = parents,
                            !.inh_count = inh.count,
                            !.inh_raised = inh.raised])

\* map_submission, lines 43-49: the analysis of the post's title and body; an
\* exception of map_tickers_with_context is caught and printed
MapSubmissionOn(texts, responses, faultChoices, limit) ==
    /\ runs < limit
    /\ \E text \in texts, resp \in responses :
       \E faults \in IF ExtractTickers(text, resp) # <<>> THEN faultChoices ELSE {NoFault} :
            Commit(ThePost, "post",
                   MapTickersWithContext(content_tickers, tickers, "post", ThePost, text,
                                         Null, resp, <<>>, NoHypeResponse, faults))
    /\ runs' = runs + 1
    /\ UNCHANGED <<sc, parent_of>>

\* a loop body that tries the parent's tickers whatever was found
CommentFallbackAlways(c, r, parents, faults) ==
    IF ~r.raised
    THEN CommitFallback(c, r, IF faults.inh = "select" THEN <<>> ELSE parents,
                        InheritParentTickers(r.table, parents, parent_of[c], c,
                                             faults.inh))
    ELSE Commit(c, "comment", r)

\* map_comments, lines 80-88: "if not found and parent_reddit_id"; an exception
\* of either call is caught and printed
CommentFallback(c, r, parents, faults) ==
    IF ~r.raised /\ r.found = <<>>
    THEN CommitFallback(c, r, IF faults.inh = "select" THEN <<>> ELSE parents,
                        InheritParentTickers(r.table, parents, parent_of[c], c,
                                             faults.inh))
    ELSE Commit(c, "comment", r)

\* map_comments, lines 63-88: the loop body for one comment of the forest
MapCommentOn(texts, responses, hypeResponses, directFaults, contextFaults, limit) ==
    /\ runs < limit
    /\ \E c \in Comments, text \in texts, resp \in responses :
        IF ExtractTickers(text, resp) # <<>>
        THEN \E faults \in directFaults :
                CommentFallback(c,
                    MapTickersWithContext(content_tickers, tickers, "comment", c, text,
                                          Some(ThePost), resp, <<>>, NoHypeResponse,
                                          faults),
                    <<>>, faults)
        ELSE \E hresp \in hypeResponses, faults \in contextFaults,
                post_tickers \in Orderings(PostRows(content_tickers, ThePost)),
                parents \in OrderingsByConfidenceDesc(
                                ParentRows(content_tickers, parent_of[c])) :
                CommentFallback(c,
                    MapTickersWithContext(content_tickers, tickers, "comment", c, text,
                                          Some(ThePost), resp, post_tickers, hresp,
                                          faults),
                    parents, faults)
    /\ runs' = runs + 1
    /\ UNCHANGED <<sc, parent_of>>

MapSubmission == MapSubmissionOn(Texts, ExtractResponses, DirectFaults, MaxRuns)

MapComment ==
    MapCommentOn(Texts, ExtractResponses, HypeResponses, DirectFaults, ContextFaults,
                 MaxRuns)

Next == MapSubmission \/ MapComment

Spec == Init /\ [][Next]_vars

(***************************************************************************)
(* Claims on the unit pipeline (under Spec)                                *)
(***************************************************************************)
\* the rows of the store that belong to a unit
RowsOf(table, kind, unit) ==
    {r \in table : r["kind"] = kind /\ r["content_reddit_id"] = unit}

\* the highest confidence among the occurrences of ticker t in a list
BestConfidence(items, t) ==
    CHOOSE m \in {items[i].confidence : i \in {j \in 1..Len(items) : items[j].ticker = t}} :
        \A i \in 1..Len(items) : items[i].ticker = t => items[i].confidence <= m

\* C1: when the Direct Extractor returns a non-empty result for a unit, in that
\* run neither the hype analyzer nor either inheritance strategy is invoked,
\* the Aggregator is updated with the direct mentions and, the store accepting
\* the write, every direct ticker is stored for the unit as a direct mention
\* (a store error ends the run with nothing stored and nothing invoked).
C1_DirectIsFinal ==
    last.direct # <<>> =>
        /\ last.hype_calls = 0
        /\ last.backend_calls = 0
        /\ last.ctx_calls = 0
        /\ last.inh_calls = 0
        /\ last.inherited = <<>>
        /\ ~last.raised =>
            /\ last.agg_fed = last.direct
            /\ Len(last.found) > 0
            /\ \A i \in 1..Len(last.direct) :
                \E r \in RowsOf(content_tickers, last.kind, last.unit) :
                    /\ r["ticker"] = last.direct[i].ticker
                    /\ r["method"] = "llm"
                    /\ r["confidence"] = BestConfidence(last.direct, last.direct[i].ticker)
            /\ \A i \in 1..Len(last.direct) :
                Len(last.direct[i].ticker) > 0 =>
                    \E a \in tickers : a.ticker = last.direct[i].ticker
                                       /\ a.total_mentions >= 1
        /\ last.raised => last.agg_fed = <<>> /\ last.found = <<>>

\* a comment with direct tickers whose post and parent both have mentions to
\* inherit
C1_Witness ==
    /\ last.kind = "comment"
    /\ last.direct # <<>>
    /\ ~last.raised
    /\ PostRows(content_tickers, ThePost) # {}
    /\ ParentRows(content_tickers, parent_of[last.unit]) # {}
    /\ RowsOf(content_tickers, "comment", last.unit) # {}

\* C2: contextual hype inheritance yields zero inherited mentions whenever the
\* hype score is below 0.3 or the post's ticker set is empty, and for every
\* hype score >= 0.3 with a non-empty post ticker set it yields exactly one
\* inherited mention per post ticker (inherit_tickers_with_context always;
\* try_contextual_inheritance returns and stores them unless the store raises).
C2_OnePerPostTicker ==
    (last.ctx_calls = 1 /\ ~(last.ctx_error /\ last.post_tickers = <<>>)) =>
        /\ (last.hype < HypeThreshold \/ last.post_tickers = <<>>) =>
                last.inherited = <<>> /\ last.found = <<>>
        /\ (last.hype >= HypeThreshold /\ last.post_tickers # <<>>) =>
            /\ Len(last.inherited) = Len(last.post_tickers)
            /\ \A i \in 1..Len(last.post_tickers) :
                    last.inherited[i].ticker = last.post_tickers[i]["ticker"]
            /\ ~last.ctx_error =>
                /\ Len(last.found) = Len(last.post_tickers)
                /\ \A i \in 1..Len(last.post_tickers) :
                    /\ last.found[i]["ticker"] = last.post_tickers[i]["ticker"]
                    /\ Cardinality({r \in RowsOf(content_tickers, "comment", last.unit) :
                                     r["ticker"] = last.post_tickers[i]["ticker"]}) = 1
                /\ Cardinality({r \in RowsOf(content_tickers, "comment", last.unit) :
                                 r["method"] = "contextual_inheritance"})
                        = Len(last.post_tickers)

\* a comment at the threshold inherits both tickers of its post
C2_Witness ==
    /\ last.ctx_calls = 1
    /\ last.hype = HypeThreshold
    /\ Len(last.post_tickers) = 2
    /\ Len(last.found) = 2
    /\ ~last.ctx_error

\* a comment just below the threshold inherits nothing from a post with tickers
C2_WitnessBelow ==
    /\ last.ctx_calls = 1
    /\ last.hype_calls = 1
    /\ last.hype = 29000
    /\ last.post_tickers # <<>>
    /\ last.found = <<>>

\* C4 as stated: ancestor-confidence inheritance never produces a confidence
\* >= 0.5; the derived confidence is strictly below 0.5.
C4_StrictlyBelowHalf ==
    \A r \in content_tickers : r["method"] = "inherit" => r["confidence"] < InheritCap

\* C4: ancestor-confidence inheritance never produces a confidence above 0.5:
\* for every stored parent confidence and along any chain of hops the derived
\* confidence is min(0.5, 0.8 * parent confidence), at most 0.5 (and 0.5 for
\* every parent confidence >= 0.625) and strictly below the parent's.
C4_AtMostHalf ==
    /\ \A r \in content_tickers : r["method"] = "inherit" => r["confidence"] <= InheritCap
    /\ (last.inh_calls = 1 /\ last.inh_count > 0) =>
        \A i \in 1..Len(last.parents) :
            \E r \in RowsOf(content_tickers, "comment", last.unit) :
                /\ r["ticker"] = last.parents[i]["ticker"]
                /\ r["method"] = "inherit"
                /\ r["confidence"] = Min(InheritCap, (last.parents[i]["confidence"] * 4) \div 5)
                /\ r["confidence"] < last.parents[i]["confidence"]
                /\ (5 * InheritCap <= 4 * last.parents[i]["confidence"]
                        => r["confidence"] = InheritCap)

\* a second hop: a comment inherits from a comment that inherited from the post
C4_Witness ==
    /\ last.inh_calls = 1
    /\ last.inh_count > 0
    /\ parent_of[last.unit] \in Comments
    /\ \E r \in RowsOf(content_tickers, "comment", last.unit) :
            r["method"] = "inherit" /\ r["confidence"] = (InheritCap * 4) \div 5
    /\ \E r \in RowsOf(content_tickers, "comment", parent_of[last.unit]) :
            r["method"] = "inherit" /\ r["confidence"] = InheritCap

\* the store has at most one row per (kind, content id, ticker)
UniqueKeys ==
    \A r1, r2 \in content_tickers : ConflictKey(r1) = ConflictKey(r2) => r1 = r2

C8_WitnessAncestor ==
    /\ last.again
    /\ WroteAncestor(last)
    /\ \A r \in RowsOf(content_tickers, "comment", last.unit) :
            r["method"] = "inherit"

(***************************************************************************)
(* The first analysis of a unit on an empty store, for every list of       *)
(* entries the backend may report: map_submission, map_comments, the       *)
(* wrapper map_tickers and the map_tickers of the regex scraper.           *)
(***************************************************************************)
MaxReported == 3

Entries == {EntryTsla, EntryTslaLower, EntryTslaOther, EntryGm, EntryNoSymbol}

\* the ticker lists of a response, up to MaxReported entries, repeats included
ReportedLists == UNION {[1..n -> Entries] : n \in 0..MaxReported}

WideResponses ==
    {[ok |-> FALSE, hype_score |-> 0, tickers |-> <<>>]}
    \cup [ok : {TRUE}, hype_score : {80000}, tickers : ReportedLists]

StoreFaults ==
    {NoFault, [NoFault EXCEPT !.store = "error"], [NoFault EXCEPT !.store = "column_ok"]}

KindOf(unit) == IF unit = ThePost THEN "post" ELSE "comment"

\* app/db.py map_tickers, lines 377-387, items being the extractor's result
MapTickersItems(table, agg, kind, content_reddit_id, items, faults) ==
    IF items = <<>>
    THEN Nothing(table, agg) @@ [direct |-> items, ctx_calls |-> 0]
    ELSE DirectStored(table, agg, kind, items,
                      StoreTickersToDb(table, kind, content_reddit_id, items, Null,
                                       faults.store),
                      faults)
         @@ [direct |-> items, ctx_calls |-> 0]

\* app/db.py map_tickers
MapTickers(table, agg, kind, content_reddit_id, text, resp, faults) ==
    MapTickersItems(table, agg, kind, content_reddit_id, ExtractTickers(text, resp),
                    faults)

\* the occurrences the regex extractor reports: "$TSLA" at 0 and at 12, a bare
\* "TSLA" at 20, a bare "GM" at 6 and at 30, confidences rounded to 3 decimals
LegacyOccurrences ==
    {[ticker |-> <<"T", "S", "L", "A">>, span |-> <<0, 5>>, confidence |-> 92000,
      method |-> "dollar"],
     [ticker |-> <<"T", "S", "L", "A">>, span |-> <<12, 17>>, confidence |-> 92000,
      method |-> "dollar"],
     [ticker |-> <<"T", "S", "L", "A">>, span |-> <<20, 24>>, confidence |-> 63000,
      method |-> "regex"],
     [ticker |-> <<"G", "M">>, span |-> <<6, 8>>, confidence |-> 66000,
      method |-> "regex"],
     [ticker |-> <<"G", "M">>, span |-> <<30, 32>>, confidence |-> 63000,
      method |-> "regex"]}

\* sorted(results.values(), key=(-confidence, ticker)): ticker order of the
\* two symbols, "GM" before "TSLA"
LegacySorted(a, b) ==
    \/ a.confidence > b.confidence
    \/ a.confidence = b.confidence /\ (a.ticker = b.ticker \/ Len(a.ticker) < Len(b.ticker))

\* the results of the regex extract_tickers: one entry per (ticker, span),
\* sorted by confidence descending, then by ticker
LegacyItemLists ==
    {q \in UNION {[1..n -> LegacyOccurrences] : n \in 0..MaxReported} :
        /\ \A i, j \in 1..Len(q) : q[i] = q[j] => i = j
        /\ \A i, j \in 1..Len(q) : i < j => LegacySorted(q[i], q[j])}

\* reddit_scraper map_tickers, lines 137-142: the same collapse loop
LegacyBest(items) == BestOccurrences(items, <<>>)

\* reddit_scraper map_tickers, lines 144-155
LegacyRow(kind, content_reddit_id, it) ==
    [kind |-> kind,
     content_reddit_id |-> content_reddit_id,
     ticker |-> it.ticker,
     confidence |-> it.confidence,
     span_start |-> Some(it.span[1]),
     span_end |-> Some(it.span[2]),
     method |-> it.method]

LegacyRows(kind, content_reddit_id, best) ==
    [i \in 1..Len(best) |-> LegacyRow(kind, content_reddit_id, best[i])]

\* lines 157-162: one upsert, its exception leaves the function
LegacyUpserted(table, agg, items, rows, up) ==
    IF up.ok
    THEN [Nothing(table, agg) EXCEPT !.table = up.table, !.found = rows,
                                     !.store_attempts = 1]
         @@ [direct |-> items, ctx_calls |-> 0]
    ELSE [Nothing(table, agg) EXCEPT !.raised = TRUE, !.store_attempts = 1]
         @@ [direct |-> items, ctx_calls |-> 0]

LegacyStore(table, agg, items, rows, fail) ==
    LegacyUpserted(table, agg, items, rows, Upsert(table, rows, fail))

\* reddit_scraper map_tickers, items being the regex extractor's result
LegacyMapTickers(table, agg, kind, content_reddit_id, items, fail) ==
    IF items = <<>>
    THEN Nothing(table, agg) @@ [direct |-> items, ctx_calls |-> 0]
    ELSE LegacyStore(table, agg, items,
                     LegacyRows(kind, content_reddit_id, LegacyBest(items)), fail)

ExtractSubmission == MapSubmissionOn(Texts, WideResponses, StoreFaults, 1)

ExtractComment ==
    MapCommentOn(Texts, WideResponses, {NoHypeResponse}, StoreFaults, {NoFault}, 1)

MapTickersCall ==
    /\ runs < 1
    /\ \E unit \in {ThePost} \cup Comments, text \in Texts, resp \in WideResponses :
       \E faults \in IF ExtractTickers(text, resp) # <<>> THEN StoreFaults ELSE {NoFault} :
            Commit(unit, KindOf(unit),
                   MapTickers(content_tickers, tickers, KindOf(unit), unit, text, resp,
                              faults))
    /\ runs' = runs + 1
    /\ UNCHANGED <<sc, parent_of>>

LegacyMapTickersCall ==
    /\ runs < 1
    /\ \E unit \in {ThePost} \cup Comments, items \in LegacyItemLists, fail \in BOOLEAN :
            Commit(unit, KindOf(unit),
                   LegacyMapTickers(content_tickers, tickers, KindOf(unit), unit, items,
                                    fail))
    /\ runs' = runs + 1
    /\ UNCHANGED <<sc, parent_of>>

NextExtract ==
    ExtractSubmission \/ ExtractComment \/ MapTickersCall \/ LegacyMapTickersCall

SpecExtract == Init /\ [][NextExtract]_vars

(***************************************************************************)
(* Claims on the collapse (under SpecExtract)                              *)
(***************************************************************************)
\* the tickers of a list of mentions or rows
TickersOf(items) == {items[i]["ticker"] : i \in 1..Len(items)}

\* the first of the occurrences of ticker t that carry its highest confidence
EarliestBest(items, t) ==
    CHOOSE k \in 1..Len(items) :
        /\ items[k].ticker = t
        /\ items[k].confidence = BestConfidence(items, t)
        /\ \A j \in 1..(k - 1) :
                ~(items[j].ticker = t /\ items[j].confidence = BestConfidence(items, t))

\* the mention row is the row of occurrence it
RowOfOccurrence(row, it) ==
    /\ row["ticker"] = it.ticker
    /\ row["confidence"] = it.confidence
    /\ row["method"] = it.method
    /\ row["span_start"] = (IF it.span[1] # -1 THEN Some(it.span[1]) ELSE Null)
    /\ "company_name" \in DOMAIN it => row["company_name"] = it.company_name

\* C6 as stated: whenever the backend reports the same ticker more than once for
\* one text, the output of extract_tickers / llm_extractor, which is also what
\* is fed to the Aggregator, contains exactly one mention for that ticker, the
\* highest-confidence occurrence.
C6_ExtractorCollapses ==
    (last.direct # <<>> /\ \A i \in 1..Len(last.direct) : last.direct[i].method = "llm") =>
        /\ \A i, j \in 1..Len(last.direct) :
                last.direct[i].ticker = last.direct[j].ticker => i = j
        /\ \A i, j \in 1..Len(last.agg_fed) :
                last.agg_fed[i].ticker = last.agg_fed[j].ticker => i = j
        /\ \A a \in tickers : a.total_mentions <= 1

\* C7: store_tickers_to_db and the legacy map_tickers write exactly one row per
\* distinct ticker of the input list, the row of the highest-confidence
\* occurrence of that ticker, the earliest one when confidences tie, so that
\* the upsert batch holds no two rows with the same (kind, content id, ticker).
C7_OneRowPerTicker ==
    (last.direct # <<>> /\ ~last.raised) =>
        /\ TickersOf(last.found) = TickersOf(last.direct)
        /\ Len(last.found) = Cardinality(TickersOf(last.direct))
        /\ ~HasDuplicateKeys(last.found)
        /\ \A i \in 1..Len(last.found) :
            /\ last.found[i]["confidence"]
                    = BestConfidence(last.direct, last.found[i]["ticker"])
            /\ RowOfOccurrence(last.found[i],
                    last.direct[EarliestBest(last.direct, last.found[i]["ticker"])])
        /\ Cardinality(content_tickers) = Len(last.found)
        /\ \A i \in 1..Len(last.found) :
            \E r \in RowsOf(content_tickers, last.kind, last.unit) :
                /\ r["ticker"] = last.found[i]["ticker"]
                /\ r["confidence"] = last.found[i]["confidence"]

\* a list with one ticker three times: the best confidence twice, first at the
\* second place, and a lower one before it
C7_Witness ==
    /\ Len(last.direct) = 3
    /\ Len(last.found) = 1
    /\ last.direct[1].confidence < last.direct[2].confidence
    /\ last.direct[3].confidence = last.direct[2].confidence
    /\ last.direct[3] # last.direct[2]
    /\ RowOfOccurrence(last.found[1], last.direct[2])
    /\ content_tickers # {}

\* the regex scraper's map_tickers on a list with one ticker at two spans
C7_WitnessLegacy ==
    /\ Len(last.direct) = 3
    /\ Len(last.found) = 2
    /\ last.direct[1].method = "dollar"
    /\ last.direct[2].method = "dollar"
    /\ content_tickers # {}

(***************************************************************************)
(* Scorer harness: the pure functions applied to inputs drawn from bounded *)
(* sets (ticker length, company name, span flag, hype score)               *)
(***************************************************************************)
MaxTickerLen == 5
HypeSteps == 100

TickerOfLen(n) == [i \in 1..n |-> "A"]
ScoreTickers == {TickerOfLen(n) : n \in 0..MaxTickerLen}
ScoreNames == {Null, Some(<<>>), Some(<<" ">>), Some(<<"T">>), Some(<<" ", "T">>)}
\* hype scores of [0.0, 1.0] on a grid of HypeSteps steps
HypeGrid == {(i * 100000) \div HypeSteps : i \in 0..HypeSteps}

\* the variables of the unit pipeline, at rest
PipelineIdle ==
    /\ content_tickers = {}
    /\ tickers = {}
    /\ parent_of = <<>>
    /\ last = <<>>
    /\ runs = 0

InitScore ==
    /\ sc \in [pc : {"input"}, ticker : ScoreTickers, company_name : ScoreNames,
               span_found : BOOLEAN, hype : HypeGrid, conf : {0}, prev : {0},
               inherited : {<<>>}]
    /\ PipelineIdle

\* llm_extractor, lines 136-139: score one reported ticker
ScoreDirect ==
    /\ sc.pc = "input"
    /\ sc' = [sc EXCEPT !.pc = "scored",
                        !.conf = CalculateExtractionConfidence(
                                    sc.ticker, sc.company_name, sc.hype, sc.span_found)]
    /\ UNCHANGED <<content_tickers, tickers, parent_of, last, runs>>

\* the same ticker and company name scored again with the other span flag
ScoreOtherSpan ==
    /\ sc.pc = "scored"
    /\ sc' = [sc EXCEPT !.pc = "rescored",
                        !.span_found = ~sc.span_found,
                        !.prev = sc.conf,
                        !.conf = CalculateExtractionConfidence(
                                    sc.ticker, sc.company_name, sc.hype, ~sc.span_found)]
    /\ UNCHANGED <<content_tickers, tickers, parent_of, last, runs>>

\* a comment of hype sc.hype inherits the scored ticker from its post
ScoreInherit ==
    /\ sc.pc \in {"scored", "rescored"}
    /\ sc' = [sc EXCEPT !.pc = "inherited",
                        !.inherited = InheritTickersWithContext(
                            <<[ticker |-> sc.ticker, confidence |-> sc.conf,
                               hype_score |-> Some(sc.hype),
                               company_name |-> sc.company_name]>>,
                            sc.hype, "p1")]
    /\ UNCHANGED <<content_tickers, tickers, parent_of, last, runs>>

NextScore == ScoreDirect \/ ScoreOtherSpan \/ ScoreInherit

SpecScore == InitScore /\ [][NextScore]_vars

(***************************************************************************)
(* Claims on the scorer and on contextual confidence (under SpecScore)     *)
(***************************************************************************)
ScScored == sc.pc \in {"scored", "rescored", "inherited"}

\* C3 as stated: contextual hype inheritance never produces a confidence
\* >= 0.75; every derived confidence is strictly below 0.75.
C3_StrictlyBelowCap ==
    sc.pc = "inherited" =>
        \A i \in 1..Len(sc.inherited) : sc.inherited[i].confidence < ContextCap

\* C3: contextual hype inheritance never produces a confidence above 0.75:
\* for every hype score h in [0.3, 1.0] the derived confidence is
\* min(0.75, h + 0.2), at most 0.75, and it is 0.75 for every h >= 0.55.
C3_AtMostCap ==
    sc.pc = "inherited" =>
        \A i \in 1..Len(sc.inherited) :
            /\ sc.inherited[i].confidence <= ContextCap
            /\ sc.inherited[i].confidence = Min(ContextCap, sc.hype + ContextBoost)
            /\ (sc.hype >= ContextCap - ContextBoost
                    => sc.inherited[i].confidence = ContextCap)

C3_Witness ==
    /\ sc.pc = "inherited"
    /\ sc.hype = 100000
    /\ Len(sc.inherited) = 1
    /\ sc.inherited[1].confidence = ContextCap

\* C5: the confidence of an inherited mention never equals or exceeds the
\* confidence of a direct match: for every hype score contextual inheritance
\* accepts and every (ticker length, company name, span found) combination
\* the Direct Extractor scores, inherited confidence < direct confidence.
C5_InheritedBelowDirect ==
    sc.pc = "inherited" =>
        \A i \in 1..Len(sc.inherited) : sc.inherited[i].confidence < sc.conf

\* C9: for every ticker length, every company name (absent, blank, present)
\* and both span flags, calculate_extraction_confidence returns a value
\* within [0.3, 1.0].
C9_ConfidenceInRange ==
    ScScored => (ConfFloor <= sc.conf /\ sc.conf <= ConfCeil)

C9_Witness ==
    /\ sc.pc = "scored"
    /\ sc.company_name = Some(<<" ">>)
    /\ Len(sc.ticker) = 1
    /\ ~sc.span_found
    /\ sc.conf = BaseConfidence - ShortPenalty - SpanPenalty

\* C10: with the same ticker and the same company name, the confidence with
\* span not found is strictly lower than the confidence with span found.
C10_SpanNotFoundStrictlyLower ==
    sc.pc = "rescored" =>
        IF sc.span_found THEN sc.prev < sc.conf ELSE sc.conf < sc.prev

C10_Witness ==
    /\ sc.pc = "rescored"
    /\ ~sc.span_found
    /\ sc.company_name = Null
    /\ Len(sc.ticker) = 0
    /\ sc.conf < sc.prev

(***************************************************************************)
(* Span harness: find_ticker_span applied to every text of up to           *)
(* MaxTextLen characters                                                   *)
(***************************************************************************)
MaxTextLen == 4

SpanAlphabet == {"$", "T", "S", "t", " ", "ß"}
SpanTexts == UNION {[1..n -> SpanAlphabet] : n \in 0..MaxTextLen}
SpanTickers == {<<"T", "S">>, <<"T">>, <<>>}

InitSpan ==
    /\ sc \in [pc : {"input"}, text : SpanTexts, ticker : SpanTickers,
               span : {<<-1, -1>>}]
    /\ PipelineIdle

\* llm_extractor, line 136
FindSpan ==
    /\ sc.pc = "input"
    /\ sc' = [sc EXCEPT !.pc = "found", !.span = FindTickerSpan(sc.text, sc.ticker)]
    /\ UNCHANGED <<content_tickers, tickers, parent_of, last, runs>>

NextSpan == FindSpan

SpecSpan == InitSpan /\ [][NextSpan]_vars

(***************************************************************************)
(* Claims on the span finder (under SpecSpan)                              *)
(***************************************************************************)
\* the 1-based positions of text where "$" and the ticker (any case) stand,
\* a word boundary after them
DollarPositions(text, ticker) ==
    {i \in 1..Len(text) : /\ text[i] = "$"
                          /\ MatchesAt(text, ticker, i + 1)
                          /\ WordBoundary(text, i + Len(ticker))}

\* the positions where the ticker (any case) stands as a bounded word
WordPositions(text, ticker) ==
    {i \in 1..Len(text) : /\ MatchesAt(text, ticker, i)
                          /\ WordBoundary(text, i - 1)
                          /\ WordBoundary(text, i + Len(ticker) - 1)}

\* the positions where the ticker (any case) stands in the text
SubstringPositions(text, ticker) ==
    {i \in 1..Len(text) : MatchesAt(text, ticker, i)}

\* C11: find_ticker_span applies its strategies in priority order: the span
\* of the first word-bounded $TICKER (any case) if there is one, also when a
\* plain TICKER stands elsewhere, even earlier; otherwise the span of the
\* first bounded-word match; otherwise the span of the first case-insensitive
\* substring match; and (-1, -1) only when none match.
C11_PriorityOrder ==
    (sc.pc = "found" /\ Len(sc.ticker) > 0) =>
        IF DollarPositions(sc.text, sc.ticker) # {}
        THEN sc.span = <<SetMin(DollarPositions(sc.text, sc.ticker)) - 1,
                         SetMin(DollarPositions(sc.text, sc.ticker)) + Len(sc.ticker)>>
        ELSE IF WordPositions(sc.text, sc.ticker) # {}
        THEN sc.span = <<SetMin(WordPositions(sc.text, sc.ticker)) - 1,
                         SetMin(WordPositions(sc.text, sc.ticker)) - 1 + Len(sc.ticker)>>
        ELSE IF SubstringPositions(sc.text, sc.ticker) # {}
        THEN sc.span = <<SetMin(SubstringPositions(sc.text, sc.ticker)) - 1,
                         SetMin(SubstringPositions(sc.text, sc.ticker)) - 1
                            + Len(sc.ticker)>>
        ELSE sc.span = <<-1, -1>>

\* the same on the texts without a character that str.upper() lengthens
C11_PriorityOrderPlainTexts ==
    (\A i \in 1..Len(sc.text) : sc.text[i] # "ß") => C11_PriorityOrder

(***************************************************************************)
(* Aggregator harness: mentions of one ticker ingested one at a time into  *)
(* an empty tickers table.  sc keeps the ingested hype scores and company  *)
(* names in order.                                                         *)
(***************************************************************************)
MaxMentions == 3

\* hype scores 0.5, 0.75 and 1.0
AggHypes == {50000, 75000, 100000}

AggNames == {Null, Some(<<"T">>), Some(<<"T", "S">>)}

AggTicker == <<"T">>

AggMention(hype, name) == [ticker |-> AggTicker, hype_score |-> hype, company_name |-> name]

InitAgg == /\ sc = [pc |-> "agg", hypes |-> <<>>, names |-> <<>>] /\ PipelineIdle

\* one call update_ticker_aggregation(supabase, [mention], kind)
Ingest ==
    /\ sc.pc = "agg"
    /\ Len(sc.hypes) < MaxMentions
    /\ \E hype \in AggHypes, name \in AggNames, kind \in {"post", "comment"} :
          /\ tickers' = UpdateTickerAggregation(tickers, <<AggMention(hype, name)>>, kind, Null)
          /\ sc' = [sc EXCEPT !.hypes = Append(@, hype), !.names = Append(@, name)]
    /\ UNCHANGED <<content_tickers, parent_of, last, runs>>

NextAgg == Ingest

SpecAgg == InitAgg /\ [][NextAgg]_vars

RECURSIVE SumOf(_)
SumOf(s) == IF s = <<>> THEN 0 ELSE Head(s) + SumOf(Tail(s))

RECURSIVE MaxOf(_)
MaxOf(s) == IF Len(s) = 1 THEN Head(s) ELSE Max(Head(s), MaxOf(Tail(s)))

Abs(x) == IF x < 0 THEN -x ELSE x

AggRow == CHOOSE r \in tickers : r.ticker = AggTicker

\* C12: after the aggregator has ingested the hype scores h1..hn of one ticker
\* starting from no row, the stored average is the arithmetic mean of h1..hn to
\* two decimals (it differs from the mean by at most 0.005) and the stored
\* maximum is max(h1..hn).
C12_RunningAverageIsMean ==
    (sc.pc = "agg" /\ sc.hypes # <<>>) =>
        /\ Abs(AggRow.avg_hype_score * Len(sc.hypes) - SumOf(sc.hypes)) <= 500 * Len(sc.hypes)
        /\ AggRow.max_hype_score = MaxOf(sc.hypes)

\* the maximum half of C12 alone
C12_MaxIsMax ==
    (sc.pc = "agg" /\ sc.hypes # <<>>) => AggRow.max_hype_score = MaxOf(sc.hypes)

\* C14: company identity in the aggregator is first-writer-wins: once the row
\* of a ticker holds a non-empty company name, no later update changes it.
C14_FirstWriterWins ==
    [][\A r \in tickers : Truthy(r.company_name) =>
          \A q \in tickers' : q.ticker = r.ticker => q.company_name = r.company_name]_vars

\* what the code keeps instead: a name, once present, never becomes empty
C14_NameNeverLost ==
    [][\A r \in tickers : Truthy(r.company_name) =>
          \A q \in tickers' : q.ticker = r.ticker => Truthy(q.company_name)]_vars

\* the stored mentions of a ticker, and those of one kind
MentionsOf(t) == {r \in content_tickers : r["ticker"] = t}

MentionsOfKind(t, kind) == {r \in MentionsOf(t) : r["kind"] = kind}

\* C13: the aggregate is reconstructible from the stored mentions: for every
\* ticker the aggregate mention count is the number of stored mentions of the
\* ticker and the post and comment counts are the numbers of stored mentions of
\* each kind (a ticker with stored mentions has an aggregate row).
C13_Reconstructible ==
    /\ \A a \in tickers :
          /\ a.total_mentions = Cardinality(MentionsOf(a.ticker))
          /\ a.total_posts = Cardinality(MentionsOfKind(a.ticker, "post"))
          /\ a.total_comments = Cardinality(MentionsOfKind(a.ticker, "comment"))
    /\ \A r \in content_tickers : \E a \in tickers : a.ticker = r["ticker"]

(***************************************************************************)
(* The unit pipeline while the tickers table fails: the store of the       *)
(* mentions works, a store call of update_ticker_aggregation may raise at  *)
(* the first ticker of its list or at the second.                          *)
(***************************************************************************)
MaxOutageRuns == 2

AggFaults == {NoFault, [NoFault EXCEPT !.agg = Some(0)], [NoFault EXCEPT !.agg = Some(1)]}

MapSubmissionOutage == MapSubmissionOn(Texts, ExtractResponses, AggFaults, MaxOutageRuns)

MapCommentOutage == MapCommentOn(Texts, ExtractResponses, HypeResponses, AggFaults, AggFaults, MaxOutageRuns)

NextOutage == MapSubmissionOutage \/ MapCommentOutage

SpecOutage == Init /\ [][NextOutage]_vars

\* the row of the store with the key and the confidence of a returned row
StoredAs(row) ==
    \E r \in content_tickers :
        ConflictKey(r) = ConflictKey(row) /\ r["confidence"] = row["confidence"]

\* C15: update_ticker_aggregation never raises to its caller: in a run that
\* called it (with mentions stored before), whatever its store calls did, no
\* exception left map_tickers_with_context, none was caught in
\* try_contextual_inheritance, and the call returned the stored mentions.
C15_AggregationNeverRaises ==
    last.agg_fed # <<>> =>
        /\ ~last.raised
        /\ ~last.ctx_error
        /\ last.found # <<>>
        /\ \A i \in 1..Len(last.found) : StoredAs(last.found[i])

\* the Aggregator failed at its first store call in every run so far, the last
\* one a contextual inheritance that returned its mentions
C15_Witness ==
    /\ last.agg_fed # <<>>
    /\ last.ctx_calls = 1
    /\ last.found # <<>>
    /\ tickers = {}

\* the same after a direct extraction, and a failure at the second ticker
C15_WitnessDirect ==
    /\ last.agg_fed # <<>>
    /\ last.ctx_calls = 0
    /\ last.found # <<>>
    /\ tickers = {}

C15_WitnessSecondTicker ==
    /\ Len(last.agg_fed) = 2
    /\ Len(last.found) = 2
    /\ Cardinality(tickers) = 1
    /\ runs = 1

(***************************************************************************)
(* The backend dialogue of llm_extractor and analyze_contextual_hype: the  *)
(* loop "for attempt in range(2)".  An attempt is what one backend call    *)
(* gives: kind "error" (the call, or reading its content, raises),         *)
(* "no_json" (clean_and_validate_json returns ""), "json" (valid JSON, in  *)
(* field parsed for the extractor, a numeric score in field value for the  *)
(* analyzer), and for the analyzer "bad_score" (float() rejects the score  *)
(* with ValueError) and "no_score" (the JSON is no object or the score is  *)
(* null: AttributeError or TypeError).                                     *)
(***************************************************************************)
\* a loop that goes on after every attempt without a result
RetryAfterFirstAlways(kind) == kind # "json"

\* lines 103-106 and 116-118, 289-292 and 305-308: "continue" on attempt 0;
\* every other exception returns at once (lines 122-124, 312-314)
RetryAfterFirst(kind) == kind \in {"no_json", "bad_score"}

\* lines 126-131: parsed_response.get and ticker_info.get("symbol", "").upper()
\* stand after the loop, outside its try
ConversionRaises(parsed) ==
    \/ parsed.shape # "object"
    \/ \E i \in 1..Len(parsed.tickers) : parsed.tickers[i].form # "dict"

\* lines 126-150 on the parsed response
Converted(text, parsed, calls) ==
    IF ConversionRaises(parsed) THEN [result |-> <<>>, raised |-> TRUE, calls |-> calls]
    ELSE [result |-> LlmExtractor(text, [ok |-> TRUE, hype_score |-> parsed.hype_score,
                                         tickers |-> parsed.tickers]),
          raised |-> FALSE, calls |-> calls]

\* the outcome of the attempt that ends the loop
ExtractorOutcome(text, attempt, calls) ==
    IF attempt.kind = "json" THEN Converted(text, attempt.parsed, calls)
    ELSE [result |-> <<>>, raised |-> FALSE, calls |-> calls]

\* llm_extractor with its backend calls: the result, whether an exception left
\* the function, and the number of backend calls
LlmExtractorAttempts(text, first, second) ==
    IF RetryAfterFirst(first.kind) THEN ExtractorOutcome(text, second, 2)
    ELSE ExtractorOutcome(text, first, 1)

\* the score the analyzer gets from the attempt that ends the loop
HypeResponseOf(attempt) == [ok |-> attempt.kind = "json", value |-> attempt.value]

\* analyze_contextual_hype with its backend calls
AnalyzeContextualHypeAttempts(text, first, second) ==
    IF HypeShortCircuit(text)
    THEN [result |-> AnalyzeContextualHype(text, NoHypeResponse), raised |-> FALSE, calls |-> 0]
    ELSE IF RetryAfterFirst(first.kind)
    THEN [result |-> AnalyzeContextualHype(text, HypeResponseOf(second)), raised |-> FALSE, calls |-> 2]
    ELSE [result |-> AnalyzeContextualHype(text, HypeResponseOf(first)), raised |-> FALSE, calls |-> 1]

\* texts: "", "ab", "a b", " a ", "abc", "$T up"
BackendTexts ==
    {<<>>, <<"a", "b">>, <<"a", " ", "b">>, <<" ", "a", " ">>, <<"a", "b", "c">>,
     <<"$", "T", " ", "u", "p">>}

\* ticker entries of a parsed response: {"symbol": "T", "name": "T"}, {},
\* {"symbol": null}, "T"
DictEntry == [symbol |-> <<"T">>, name |-> Some(<<"T">>), form |-> "dict"]
EmptyDictEntry == [symbol |-> <<>>, name |-> Some(<<>>), form |-> "dict"]
NullSymbolEntry == [symbol |-> <<>>, name |-> Some(<<>>), form |-> "null_symbol"]
StringEntry == [symbol |-> <<>>, name |-> Some(<<>>), form |-> "string"]

\* parsed responses: a JSON value that is no object ([], null), and objects
\* with a ticker list
ParsedResponses ==
    {[shape |-> "other", hype_score |-> 0, tickers |-> <<>>]}
    \cup [shape : {"object"}, hype_score : {80000},
          tickers : {<<>>, <<DictEntry>>, <<EmptyDictEntry>>, <<NullSymbolEntry>>,
                     <<DictEntry, StringEntry>>}]

NoParsed == [shape |-> "other", hype_score |-> 0, tickers |-> <<>>]

ExtractorAttempts ==
    [kind : {"error", "no_json"}, parsed : {NoParsed}]
    \cup [kind : {"json"}, parsed : ParsedResponses]

\* scores the backend reports: -0.1, 0.0, 0.29, 0.3, 1.0, 1.5
HypeScores == {-10000, 0, 29000, 30000, 100000, 150000}

HypeAttempts ==
    [kind : {"error", "no_json", "bad_score", "no_score"}, value : {0}]
    \cup [kind : {"json"}, value : HypeScores]

BackendIdle ==
    [pc |-> "idle", text |-> <<>>, first |-> "none", second |-> "none",
     result |-> <<>>, raised |-> FALSE, calls |-> 0]

InitBackend == /\ sc = BackendIdle /\ PipelineIdle

\* one call extract_tickers(text)
ExtractCall ==
    /\ sc.pc \in {"idle", "extracted", "analyzed"}
    /\ \E text \in BackendTexts, first \in ExtractorAttempts, second \in ExtractorAttempts :
          sc' = [pc |-> "extracted", text |-> text, first |-> first, second |-> second]
                @@ LlmExtractorAttempts(text, first, second)
    /\ UNCHANGED <<content_tickers, tickers, parent_of, last, runs>>

\* one call analyze_contextual_hype(text)
HypeCall ==
    /\ sc.pc \in {"idle", "extracted", "analyzed"}
    /\ \E text \in BackendTexts, first \in HypeAttempts, second \in HypeAttempts :
          sc' = [pc |-> "analyzed", text |-> text, first |-> first, second |-> second]
                @@ AnalyzeContextualHypeAttempts(text, first, second)
    /\ UNCHANGED <<content_tickers, tickers, parent_of, last, runs>>

NextBackend == ExtractCall \/ HypeCall

SpecBackend == InitBackend /\ [][NextBackend]_vars

\* the attempt whose answer the call ended with
Decisive == IF sc.calls = 2 THEN sc.second ELSE sc.first

\* C16: the Direct Extractor never raises past its boundary: for every
\* backend behaviour extract_tickers returns a list, and the empty list for a
\* call failure, a parse failure after the retry and an empty ticker list.
C16_ExtractorNeverRaises ==
    sc.pc = "extracted" =>
        /\ ~sc.raised
        /\ (Decisive.kind # "json" \/ Decisive.parsed.tickers = <<>>) => sc.result = <<>>

\* the same for the backend behaviours in which the response is an object
\* whose ticker entries are objects with a string symbol
C16_WellFormedNeverRaises ==
    (sc.pc = "extracted" /\ (Decisive.kind = "json" => ~ConversionRaises(Decisive.parsed))) =>
        /\ ~sc.raised
        /\ (Decisive.kind # "json" \/ Decisive.parsed.tickers = <<>>) => sc.result = <<>>

\* a response that could not be parsed: no JSON in it, or for the analyzer a
\* score that is no number
Unparseable(attempt) == attempt.kind \in {"no_json", "bad_score"}

Called == sc.pc \in {"extracted", "analyzed"}

EmptyResult == IF sc.pc = "extracted" THEN sc.result = <<>> ELSE sc.result = 0

\* C17: retry once, then give up: within one extract_tickers or
\* analyze_contextual_hype call the backend is invoked at most twice, a second
\* time only after a first response that could not be parsed; a failed call is
\* not retried, a parseable first response is used without a second call, and
\* two unparseable responses give the empty result.
C17_RetryOnceThenGiveUp ==
    Called =>
        /\ sc.calls <= 2
        /\ sc.calls = 2 => Unparseable(sc.first)
        /\ sc.first.kind = "error" => sc.calls <= 1 /\ EmptyResult
        /\ sc.first.kind = "json" => sc.calls <= 1
        /\ (sc.calls = 2 /\ Unparseable(sc.second)) => EmptyResult /\ ~sc.raised

\* a second call that gave the extractor's result, and one that gave the
\* analyzer's after a score that was no number
C17_Witness == sc.pc = "extracted" /\ sc.calls = 2 /\ sc.result # <<>>

C17_WitnessHype ==
    sc.pc = "analyzed" /\ sc.calls = 2 /\ sc.first.kind = "bad_score" /\ sc.result = 30000

\* two unparseable responses, and a failed first call
C17_WitnessGiveUp == Called /\ sc.calls = 2 /\ Unparseable(sc.second)

C17_WitnessCallFailure == Called /\ sc.calls = 1 /\ sc.first.kind = "error"

\* the number of non-whitespace characters of a text
NonSpaceCount(text) == Cardinality({i \in 1..Len(text) : ~IsSpace(text[i])})

\* C18: analyze_contextual_hype returns 0.0 without invoking the backend for
\* every text with fewer than 3 non-whitespace characters, inner whitespace
\* between them or not.
C18_ShortTextNoBackend ==
    (sc.pc = "analyzed" /\ NonSpaceCount(sc.text) < MinHypeTextLen) =>
        sc.result = 0 /\ sc.calls = 0

\* what line 235 tests: the length of the text without its leading and
\* trailing whitespace
C18_ShortStrippedNoBackend ==
    (sc.pc = "analyzed" /\ StripLen(sc.text) < MinHypeTextLen) =>
        sc.result = 0 /\ sc.calls = 0

\* C19: for every text and every backend behaviour analyze_contextual_hype
\* returns a value in [0.0, 1.0], a reported score outside the range being
\* clamped to its nearer end, and 0.0 whenever the backend call fails or no
\* valid score is obtained after the one permitted retry.
C19_HypeInRange ==
    sc.pc = "analyzed" =>
        /\ ~sc.raised
        /\ 0 <= sc.result /\ sc.result <= 100000
        /\ (sc.calls >= 1 /\ Decisive.kind # "json") => sc.result = 0
        /\ (sc.calls >= 1 /\ Decisive.kind = "json" /\ Decisive.value > 100000) =>
                sc.result = 100000
        /\ (sc.calls >= 1 /\ Decisive.kind = "json" /\ Decisive.value < 0) => sc.result = 0

\* a reported score of 1.5, after a retry, returned as 1.0
C19_Witness ==
    /\ sc.pc = "analyzed"
    /\ sc.calls = 2
    /\ sc.second.kind = "json"
    /\ sc.second.value = 150000
    /\ sc.result = 100000

\* no valid score after the retry, and a failed call
C19_WitnessNoScore ==
    sc.pc = "analyzed" /\ sc.calls = 2 /\ sc.second.kind = "bad_score" /\ sc.result = 0

C19_WitnessCallFailure ==
    sc.pc = "analyzed" /\ sc.calls = 1 /\ sc.first.kind = "error" /\ sc.result = 0

(***************************************************************************)
(* The comment-processing paths: the live scrape (map_submission and       *)
(* map_comments) and the loops of analyze_unprocessed_comments and         *)
(* process_comments_batch over comments already in the comments table.     *)
(* The processed_at mark that the two loops write to that table is not     *)
(* part of the state.                                                      *)
(***************************************************************************)
\* the state after one comment of a script's loop
CommitPath(path, c, r) ==
    /\ content_tickers' = r.table
    /\ tickers' = r.agg
    /\ last' = Traced([RunTrace(c, "comment", r) EXCEPT !.path = path])

\* the loop body of analyze_unprocessed_comments (lines 103-130) and of
\* process_comments_batch (lines 200-224) for one comment with a body:
\* map_tickers_with_context and nothing else; its exception is caught
ScriptCommentOn(path, texts, responses, hypeResponses, faultChoices, limit) ==
    /\ runs < limit
    /\ \E c \in Comments, text \in texts, resp \in responses, faults \in faultChoices :
        IF ExtractTickers(text, resp) # <<>>
        THEN CommitPath(path, c,
                MapTickersWithContext(content_tickers, tickers, "comment", c, text,
                                      Some(ThePost), resp, <<>>, NoHypeResponse, faults))
        ELSE \E hresp \in hypeResponses,
                post_tickers \in Orderings(PostRows(content_tickers, ThePost)) :
                CommitPath(path, c,
                    MapTickersWithContext(content_tickers, tickers, "comment", c, text,
                                          Some(ThePost), resp, post_tickers, hresp,
                                          faults))
    /\ runs' = runs + 1
    /\ UNCHANGED <<sc, parent_of>>

AnalyzeUnprocessedComments ==
    ScriptCommentOn("analyze_unprocessed_comments", Texts, ExtractResponses, HypeResponses, DirectFaults, MaxRuns)

ProcessCommentsBatch ==
    ScriptCommentOn("process_comments_batch", Texts, ExtractResponses, HypeResponses, DirectFaults, MaxRuns)

NextPaths == MapSubmission \/ MapComment \/ AnalyzeUnprocessedComments \/ ProcessCommentsBatch

SpecPaths == Init /\ [][NextPaths]_vars

\* the run found no direct tickers and contextual inheritance gave nothing
ContextYieldedNothing(l) ==
    l.direct = <<>> /\ l.ctx_calls = 1 /\ l.found = <<>> /\ ~l.raised

\* C20: ancestor inheritance is the fallback of contextual inheritance in
\* every comment-processing path: for a comment (each has a direct parent)
\* inherit_parent_tickers is run when the comment has no direct tickers and
\* contextual inheritance yields nothing, and only then.
C20_FallbackInEveryPath ==
    last.kind = "comment" => (last.inh_calls = 1 <=> ContextYieldedNothing(last))

\* the same for the live scrape alone
C20_FallbackInLiveScrape ==
    (last.kind = "comment" /\ last.path = "scrape") =>
        (last.inh_calls = 1 <=> ContextYieldedNothing(last))

(***************************************************************************)
(* Claims on contextual inheritance and on the store (under Spec)          *)
(***************************************************************************)
\* the stored post mention a derived mention comes from
FromPostMention(ticker) ==
    \E r \in RowsOf(content_tickers, "post", ThePost) : r["ticker"] = ticker

\* C21: try_contextual_inheritance derives mentions only from the stored
\* mentions of kind post of the owning post: with none it returns empty and the
\* hype analyzer is not invoked; otherwise each derived mention has the ticker
\* of a post mention, confidence min(0.75, h + 0.2), method
\* contextual_inheritance, hype score h, no span and the post's id as
\* provenance, in the list built and in the rows stored.
C21_DerivedFromPostMentions ==
    last.ctx_calls = 1 =>
        /\ last.post_tickers = <<>> =>
                last.hype_calls = 0 /\ last.inherited = <<>> /\ last.found = <<>>
        /\ \A i \in 1..Len(last.inherited) :
                /\ FromPostMention(last.inherited[i].ticker)
                /\ last.inherited[i].confidence = Min(75000, last.hype + 20000)
                /\ last.inherited[i].method = "contextual_inheritance"
                /\ last.inherited[i].hype_score = last.hype
                /\ last.inherited[i].span = <<-1, -1>>
                /\ last.inherited[i].context_post_id = ThePost
        /\ \A i \in 1..Len(last.found) :
                /\ FromPostMention(last.found[i]["ticker"])
                /\ last.found[i]["confidence"] = Min(75000, last.hype + 20000)
                /\ last.found[i]["method"] = "contextual_inheritance"
                /\ last.found[i]["hype_score"] = Some(last.hype)
                /\ last.found[i]["span_start"] = Null
                /\ last.found[i]["span_end"] = Null
                /\ last.found[i]["context_post_id"] = Some(ThePost)
                /\ StoredAs(last.found[i])

\* a comment with hype 0.3 that got its post's two mentions at confidence 0.5
C21_Witness ==
    /\ last.ctx_calls = 1
    /\ Len(last.found) = 2
    /\ last.hype = 30000
    /\ last.found[1]["confidence"] = 50000

\* a comment of a post without mentions
C21_WitnessNoPostMentions ==
    /\ last.ctx_calls = 1
    /\ last.post_tickers = <<>>
    /\ ~last.ctx_error
    /\ last.hype_calls = 0

(***************************************************************************)
(* Store harness: calls of store_tickers_to_db for the post and a comment  *)
(* under every mode of the store.  The code takes an error for a schema    *)
(* mismatch when its message holds the word "column" (line 293); the modes *)
(* "column_ok" and "column_error" are the errors with such a message.      *)
(***************************************************************************)
MaxStores == 2

StoreModes == {"ok", "error", "column_ok", "column_error"}

\* the lists a caller passes: what the extractor found in a unit's text
StoreItemLists == {ExtractTickers(text, resp) : text \in Texts, resp \in ExtractResponses}

StorePostId(unit) == IF unit = ThePost THEN Null ELSE Some(ThePost)

InitStore == /\ sc = [pc |-> "idle"] /\ PipelineIdle

\* the record of a call: the table before it, the mode, the list, the result
StoreTrace(before, unit, items, mode, st) ==
    [pc |-> "stored", before |-> before, unit |-> unit, items |-> items, mode |-> mode,
     rows |-> st.rows, raised |-> st.raised, attempts |-> st.attempts]

StoreCommit(before, unit, items, mode, st) ==
    /\ content_tickers' = st.table
    /\ sc' = StoreTrace(before, unit, items, mode, st)

\* one call store_tickers_to_db(supabase, kind, content_reddit_id, items, post_reddit_id)
StoreCall ==
    /\ runs < MaxStores
    /\ \E unit \in {ThePost, <<"c", 1>>}, items \in StoreItemLists, mode \in StoreModes :
          StoreCommit(content_tickers, unit, items, mode,
                      StoreTickersToDb(content_tickers, KindOf(unit), unit, items,
                                       StorePostId(unit), mode))
    /\ runs' = runs + 1
    /\ UNCHANGED <<tickers, parent_of, last>>

NextStore == StoreCall

SpecStore == InitStore /\ [][NextStore]_vars

\* the value a column of the row with key k had before the call (NULL: no row)
ValueBefore(k, c) ==
    IF \E r \in sc.before : ConflictKey(r) = k
    THEN (CHOOSE r \in sc.before : ConflictKey(r) = k)[c]
    ELSE Null

\* the stored row of a written row holds its reduced fields, and in every
\* other column what the store held before
ReducedWrite(row) ==
    \E r \in content_tickers :
        /\ ConflictKey(r) = ConflictKey(row)
        /\ \A c \in BasicColumns : r[c] = row[c]
        /\ \A c \in Columns \ BasicColumns : r[c] = ValueBefore(ConflictKey(row), c)

\* C22: store_tickers_to_db makes at most two upsert attempts; a second one
\* only after the first was rejected for a missing column, and then exactly one
\* with the reduced field set alone; when the retry fails, or the first failure
\* is of another kind, the error reaches the caller, nothing is written and no
\* further attempt is made.
C22_SchemaMismatchRetry ==
    (sc.pc = "stored" /\ sc.items # <<>>) =>
        /\ sc.attempts \in {1, 2}
        /\ sc.attempts = 2 <=> sc.mode \in {"column_ok", "column_error"}
        /\ sc.mode = "ok" => ~sc.raised
        /\ sc.mode = "column_ok" =>
                /\ ~sc.raised
                /\ sc.rows # <<>>
                /\ \A i \in 1..Len(sc.rows) : ReducedWrite(sc.rows[i])
        /\ sc.mode \in {"error", "column_error"} =>
                sc.raised /\ content_tickers = sc.before

\* a retry with the reduced fields over a row that was stored in full before:
\* its hype score stays
C22_Witness ==
    /\ sc.pc = "stored"
    /\ sc.mode = "column_ok"
    /\ sc.attempts = 2
    /\ sc.before # {}
    /\ \E i \in 1..Len(sc.rows) : ValueBefore(ConflictKey(sc.rows[i]), "hype_score") # Null

\* a retry that failed, and a first failure of another kind
C22_WitnessRetryFailed == sc.pc = "stored" /\ sc.mode = "column_error" /\ sc.attempts = 2 /\ sc.raised

C22_WitnessOtherError == sc.pc = "stored" /\ sc.mode = "error" /\ sc.attempts = 1 /\ sc.raised

(***************************************************************************)
(* Batch analysis: incremental_batch_analyze (analyze_unprocessed_posts,   *)
(* then analyze_unprocessed_comments) and process_single_day               *)
(* (process_posts_batch, then process_comments_batch) over the posts and   *)
(* comments tables.  sc holds the tables' part that matters (the units     *)
(* with an empty or deleted text, the creation day and the processed_at    *)
(* mark of each unit), the run (mode, the selected units, the two queues)  *)
(* and the past: how often a unit was passed to map_tickers_with_context,  *)
(* the units whose analysis raised, and the comments analysed while their  *)
(* post was not marked.  The analysis itself is an input of the loop body: it   *)
(* returns or raises.                                                      *)
(***************************************************************************)
MaxBatchRuns == 2
MaxDay == 2

BatchUnits == {ThePost} \cup Comments

\* creation days: a comment is not older than its parent
CreationDays ==
    {d \in [BatchUnits -> 1..MaxDay] : \A c \in Comments : d[parent_of[c]] <= d[c]}

\* .order("created_utc"): the units of S, oldest first, ties in any order
OldestFirst(S, day) ==
    {q \in Orderings(S) : \A i, j \in 1..Cardinality(S) : i < j => day[q[i]] <= day[q[j]]}

InitBatch ==
    /\ parent_of \in Trees
    /\ content_tickers = {}
    /\ tickers = {}
    /\ last = NoRun
    /\ runs = 0
    /\ \E empty \in SUBSET BatchUnits, day \in CreationDays :
          sc = [pc |-> "idle", mode |-> "none", posts |-> <<>>, comments |-> <<>>,
                selected |-> {}, processed |-> {}, empty |-> empty, day |-> day,
                calls |-> [u \in BatchUnits |-> 0], failed |-> {}, early |-> {}]

BatchFrame == UNCHANGED <<content_tickers, tickers, parent_of, last>>

Unmarked(S) == S \ sc.processed

\* incremental_batch_analyze, lines 151-153 with analyze_unprocessed_posts
\* lines 19-27: every post without a processed_at mark
StartIncremental ==
    /\ sc.pc \in {"idle", "done", "aborted", "interrupted"}
    /\ runs < MaxBatchRuns
    /\ \E q \in OldestFirst(Unmarked({ThePost}), sc.day) :
          sc' = [sc EXCEPT !.pc = "posts", !.mode = "incremental", !.posts = q,
                           !.comments = <<>>, !.selected = Unmarked({ThePost})]
    /\ runs' = runs + 1
    /\ BatchFrame

\* the units of day d without a mark
UnmarkedOfDay(S, d) == {u \in Unmarked(S) : sc.day[u] = d}

\* process_single_day, lines 85-119: the posts and the comments of one day
\* without a mark, both selected before the first is handled
BackfillDay ==
    /\ sc.pc \in {"idle", "done", "aborted", "interrupted"}
    /\ runs < MaxBatchRuns
    /\ \E d \in 1..MaxDay :
       \E qp \in OldestFirst(UnmarkedOfDay({ThePost}, d), sc.day),
          qc \in OldestFirst(UnmarkedOfDay(Comments, d), sc.day) :
          sc' = [sc EXCEPT !.pc = "posts", !.mode = "backfill", !.posts = qp,
                           !.comments = qc,
                           !.selected = UnmarkedOfDay(BatchUnits, d)]
    /\ runs' = runs + 1
    /\ BatchFrame

\* analyze_unprocessed_comments lines 78-89 (after the posts loop): every
\* comment without a mark; process_single_day has selected its comments before
SelectComments ==
    /\ sc.pc = "posts"
    /\ sc.posts = <<>>
    /\ IF sc.mode = "incremental"
       THEN \E q \in OldestFirst(Unmarked(Comments), sc.day) :
                sc' = [sc EXCEPT !.pc = "comments", !.comments = q,
                                 !.selected = sc.selected \cup Unmarked(Comments)]
       ELSE sc' = [sc EXCEPT !.pc = "comments"]
    /\ UNCHANGED runs
    /\ BatchFrame

\* a loop body whose except branch would not write processed_at
MarkerWritesTryOnly(mode, skipped, outcome) ==
    IF ~skipped /\ outcome = "raised" THEN 0 ELSE 1

\* the processed_at writes a loop body can make for a unit before an exception
\* of the write leaves the loop: the write of the try and the write of the
\* except branch when the analysis returned (or, in process_posts_batch and
\* process_comments_batch, was skipped); one write when the analysis raised
\* (the write of the except branch) and when analyze_incremental skips an
\* empty unit (its write stands outside the try)
MarkerWrites(mode, skipped, outcome) ==
    IF skipped THEN (IF mode = "backfill" THEN 2 ELSE 1)
    ELSE IF outcome = "returned" THEN 2 ELSE 1

\* the owning post of a comment analysed now has no mark
Early(u) == IF u \in Comments /\ ThePost \notin sc.processed THEN {u} ELSE {}

\* the state after the loop body for unit u; rest: the queues after it.
\* failing: how many of the unit's processed_at writes the store rejects
Handled(u, rest, skipped, outcome, failing) ==
    [rest EXCEPT
        !.calls = IF skipped THEN @ ELSE [@ EXCEPT ![u] = @ + 1],
        !.failed = IF ~skipped /\ outcome = "raised" THEN @ \cup {u} ELSE @,
        !.early = IF skipped THEN @ ELSE @ \cup Early(u),
        !.processed = IF outcome # "killed" /\ failing < MarkerWrites(sc.mode, skipped, outcome)
                      THEN @ \cup {u} ELSE @,
        !.pc = IF outcome = "killed" THEN "interrupted"
               ELSE IF failing >= MarkerWrites(sc.mode, skipped, outcome) THEN "aborted"
               ELSE @]

\* the loop body of analyze_unprocessed_posts (lines 33-67) and of
\* process_posts_batch (lines 152-176) for the next post
HandlePostOn(outcomes, failings) ==
    /\ sc.pc = "posts"
    /\ sc.posts # <<>>
    /\ \E outcome \in outcomes, failing \in failings :
          sc' = Handled(Head(sc.posts), [sc EXCEPT !.posts = Tail(@)],
                        Head(sc.posts) \in sc.empty, outcome, failing)
    /\ UNCHANGED runs
    /\ BatchFrame

\* the loop body of analyze_unprocessed_comments (lines 97-135) and of
\* process_comments_batch (lines 199-224) for the next comment
HandleCommentOn(outcomes, failings) ==
    /\ sc.pc = "comments"
    /\ sc.comments # <<>>
    /\ \E outcome \in outcomes, failing \in failings :
          sc' = Handled(Head(sc.comments), [sc EXCEPT !.comments = Tail(@)],
                        Head(sc.comments) \in sc.empty, outcome, failing)
    /\ UNCHANGED runs
    /\ BatchFrame

\* the comments loop ends: the run returns
FinishRun ==
    /\ sc.pc = "comments"
    /\ sc.comments = <<>>
    /\ sc' = [sc EXCEPT !.pc = "done"]
    /\ UNCHANGED runs
    /\ BatchFrame

\* the store may reject processed_at writes
HandlePost == HandlePostOn({"returned", "raised"}, 0..2)

HandleComment == HandleCommentOn({"returned", "raised"}, 0..2)

NextBatch ==
    StartIncremental \/ BackfillDay \/ SelectComments \/ HandlePost \/ HandleComment \/ FinishRun

SpecBatch == InitBatch /\ [][NextBatch]_vars

\* C23: failures are unit-scoped: an error raised while handling one unit of a
\* batch loop (the backend, a malformed response, a store error on a mention
\* write or on the processed-marker write) never keeps the remaining units of
\* the batch from being processed: no run is ended by an exception of a loop
\* body.
C23_FailuresUnitScoped == sc.pc # "aborted"

(***************************************************************************)
(* Interrupted runs: the process can be stopped between two units, or      *)
(* within a loop body after map_tickers_with_context has run and before    *)
(* the processed_at write (outcome "killed").  The store accepts every     *)
(* write.                                                                  *)
(***************************************************************************)
ResumePost == HandlePostOn({"returned", "raised", "killed"}, {0})

ResumeComment == HandleCommentOn({"returned", "raised", "killed"}, {0})

\* the process is stopped between two loop bodies
Interrupt ==
    /\ sc.pc \in {"posts", "comments"}
    /\ sc' = [sc EXCEPT !.pc = "interrupted"]
    /\ UNCHANGED runs
    /\ BatchFrame

NextResume ==
    StartIncremental \/ BackfillDay \/ SelectComments \/ ResumePost \/ ResumeComment \/ FinishRun \/ Interrupt

SpecResume == InitBatch /\ [][NextResume]_vars

\* C25: checkpointed resume: when an incremental batch is interrupted and
\* restarted, the restart handles exactly the units not yet marked processed,
\* and no unit is passed to the extractor (and counted by the aggregator) more
\* than once across the interrupted run and the restart.
C25_NoUnitTwice == \A u \in BatchUnits : sc.calls[u] <= 1

\* the first half alone: a restarted incremental run takes the posts, and
\* then the comments, that have no mark, and no others
C25_RestartSelectsUnmarked ==
    [][/\ (StartIncremental => sc'.selected = Unmarked({ThePost}))
       /\ (SelectComments /\ sc.mode = "incremental" =>
              sc'.selected \ sc.selected = Unmarked(Comments) \ sc.selected)]_vars

\* a unit analysed twice was left without a mark by the run that analysed
\* it first
C25_Witness ==
    /\ runs = 2
    /\ sc.mode = "incremental"
    /\ \E u \in BatchUnits : sc.calls[u] = 2 /\ u \in sc.processed

(***************************************************************************)
(* Undisturbed runs: the store accepts every processed_at write and the    *)
(* process is not stopped.  A started run goes on by itself: its loops     *)
(* are plain sequential code, hence the weak fairness of the steps of a    *)
(* run; starting a run is left to the operator.                            *)
(***************************************************************************)
RunPost == HandlePostOn({"returned", "raised"}, {0})

RunComment == HandleCommentOn({"returned", "raised"}, {0})

NextRun ==
    StartIncremental \/ BackfillDay \/ SelectComments \/ RunPost \/ RunComment \/ FinishRun

SpecRun ==
    /\ InitBatch
    /\ [][NextRun]_vars
    /\ WF_vars(SelectComments)
    /\ WF_vars(RunPost)
    /\ WF_vars(RunComment)
    /\ WF_vars(FinishRun)

\* C30: an incremental or backfill run over a finite set of selected units
\* terminates, and at its end every selected unit is marked processed, whether
\* its analysis returned, raised or was skipped for an empty or deleted text;
\* hence a unit whose analysis raised is never analysed again by a later run.
C30_TerminatesAllMarked ==
    /\ (sc.pc \in {"posts", "comments"}) ~> (sc.pc = "done")
    /\ [](sc.pc = "done" => sc.selected \subseteq sc.processed)
    /\ [][\A u \in sc.failed : sc'.calls[u] = sc.calls[u]]_vars

\* a second run has ended; the first analysed a unit whose analysis raised
\* and skipped an empty one
C30_Witness ==
    /\ sc.pc = "done"
    /\ runs = MaxBatchRuns
    /\ sc.failed # {}
    /\ sc.empty # {}
    /\ sc.processed = BatchUnits
    /\ \E u \in BatchUnits \ sc.failed : sc.calls[u] = 1

\* a run over nothing but skipped units ends with all of them marked
C30_WitnessAllSkipped ==
    /\ sc.pc = "done"
    /\ sc.empty = BatchUnits
    /\ sc.selected = BatchUnits
    /\ sc.processed = BatchUnits

\* C28: ancestors are processed before descendants: in incremental and
\* backfill analysis every selected post is processed before any comment, so
\* whenever a comment is analysed (and contextual inheritance may run for it)
\* its owning post has already been processed, in this or an earlier run.
C28_AncestorsFirst == sc.early = {}

\* within a run the claim's order holds: no post is handled after a comment
C28_PostsBeforeComments ==
    [][sc.pc = "comments" => sc'.pc # "posts" \/ StartIncremental \/ BackfillDay]_vars

\* an incremental run analyses no comment before the post it belongs to
C28_IncrementalAncestorsFirst == [][sc.mode = "incremental" => sc'.early = sc.early]_vars

(***************************************************************************)
(* Two workers in update_ticker_aggregation for the same ticker.  The      *)
(* function makes two store calls for a ticker, the select of line 329     *)
(* and the update (lines 343-351) or the insert (lines 355-364); each is   *)
(* one request to the store, and the requests of the two workers           *)
(* interleave in any order.  sc.w[i] is worker i: its position, its        *)
(* mention and the rows its select returned.                               *)
(***************************************************************************)
Workers == {1, 2}

\* line 329
SelectExisting(agg, ticker) == {r \in agg : r.ticker = ticker}

\* lines 331-351: the values are computed from the row the select returned;
\* the update replaces the row of the ticker that is in the table now
UpdateExisting(agg, current, ticker_data, kind) ==
    IF SelectExisting(agg, ticker_data.ticker) = {} THEN agg
    ELSE (agg \ SelectExisting(agg, ticker_data.ticker)) \cup
         SelectExisting(UpdateOneTicker({current}, ticker_data, kind), ticker_data.ticker)

\* lines 355-364: ticker is the primary key of the tickers table
\* (migrate_enhanced_schema.py line 42): the insert of a second row raises
InsertRaises(agg, ticker_data) == SelectExisting(agg, ticker_data.ticker) # {}

InsertNew(agg, ticker_data, kind) ==
    IF InsertRaises(agg, ticker_data) THEN agg
    ELSE agg \cup UpdateOneTicker({}, ticker_data, kind)

InitWorkers ==
    /\ content_tickers = {}
    /\ parent_of = <<>>
    /\ last = <<>>
    /\ runs = 0
    /\ \E first \in AggHypes \cup {0} :
          tickers = IF first = 0 THEN {} ELSE UpdateOneTicker({}, AggMention(first, Null), "post")
    /\ \E hypes \in [Workers -> AggHypes], kinds \in [Workers -> {"post", "comment"}] :
          sc = [pc |-> "workers",
                before |-> tickers,
                w |-> [i \in Workers |->
                         [pc |-> "select", mention |-> AggMention(hypes[i], Null),
                          kind |-> kinds[i], existing |-> {}, raised |-> FALSE]]]

\* worker i sends the select
Select(i) ==
    /\ sc.pc = "workers"
    /\ sc.w[i].pc = "select"
    /\ sc' = [sc EXCEPT !.w[i].pc = "write",
                        !.w[i].existing = SelectExisting(tickers, sc.w[i].mention.ticker)]
    /\ UNCHANGED <<content_tickers, tickers, parent_of, last, runs>>

\* worker i sends the update or the insert; an exception of the insert is
\* caught at line 366
Write(i) ==
    /\ sc.pc = "workers"
    /\ sc.w[i].pc = "write"
    /\ IF sc.w[i].existing # {}
       THEN /\ tickers' = UpdateExisting(tickers, CHOOSE r \in sc.w[i].existing : TRUE,
                                         sc.w[i].mention, sc.w[i].kind)
            /\ sc' = [sc EXCEPT !.w[i].pc = "done"]
       ELSE /\ tickers' = InsertNew(tickers, sc.w[i].mention, sc.w[i].kind)
            /\ sc' = [sc EXCEPT !.w[i].pc = "done",
                                !.w[i].raised = InsertRaises(tickers, sc.w[i].mention)]
    /\ UNCHANGED <<content_tickers, parent_of, last, runs>>

SelectStep == \E i \in Workers : Select(i)

WriteStep == \E i \in Workers : Write(i)

NextWorkers == SelectStep \/ WriteStep

SpecWorkers == InitWorkers /\ [][NextWorkers]_vars

WorkersDone == sc.pc = "workers" /\ \A i \in Workers : sc.w[i].pc = "done"

MentionsBefore == IF sc.before = {} THEN 0 ELSE (CHOOSE r \in sc.before : TRUE).total_mentions

MaxBefore == IF sc.before = {} THEN 0 ELSE (CHOOSE r \in sc.before : TRUE).max_hype_score

\* C24: the per-ticker update of the aggregator is serialized: when two workers
\* run update_ticker_aggregation for the same ticker concurrently, then in
\* every interleaving of their store reads and writes the final total mention
\* count has grown by two, the maximum covers both hype scores, and no insert
\* of a second first mention has failed.
C24_NoLostUpdate ==
    WorkersDone =>
        /\ AggRow.total_mentions = MentionsBefore + Cardinality(Workers)
        /\ \A i \in Workers : AggRow.max_hype_score >= sc.w[i].mention.hype_score
        /\ AggRow.max_hype_score >= MaxBefore
        /\ \A i \in Workers : ~sc.w[i].raised

\* a worker whose write follows its select with no request of the other in
\* between does what the sequential function does
C24_AloneIsSequential ==
    [][\A i \in Workers :
          (Write(i) /\ sc.w[i].existing = SelectExisting(tickers, AggTicker))
              => tickers' = UpdateOneTicker(tickers, sc.w[i].mention, sc.w[i].kind)]_vars

(***************************************************************************)
(* clean_and_validate_json (nlp.py lines 11-57) on responses written as    *)
(* sequences of tokens: "{" and "}", "m" (an object member, "k": 1),       *)
(* "n" (the scalar null), "w" (a word of prose), " " (white space), "F" (the      *)
(* fence ```) and "J" (the opening fence ```json).                         *)
(***************************************************************************)
MaxJsonLen == 4

JsonTokens == {"{", "}", "m", "n", "w", " ", "F", "J"}

RECURSIVE WithoutSpaces(_)
WithoutSpaces(r) ==
    IF r = <<>> THEN <<>>
    ELSE IF IsSpace(Head(r)) THEN WithoutSpaces(Tail(r))
    ELSE <<Head(r)>> \o WithoutSpaces(Tail(r))

\* a JSON object over the tokens: {} or {"k": 1}, white space between tokens
IsJsonObject(r) == WithoutSpaces(r) \in {<<"{", "}">>, <<"{", "m", "}">>}

\* json.loads accepts r: an object or a bare scalar, white space around it
JsonLoads(r) == IsJsonObject(r) \/ WithoutSpaces(r) = <<"n">>

\* str.strip()
Strip(r) ==
    IF ~StripNonEmpty(r) THEN <<>>
    ELSE SubSeq(r, SetMin({i \in 1..Len(r) : ~IsSpace(r[i])}),
                   SetMin({i \in 1..Len(r) : ~IsSpace(r[i])}) + StripLen(r) - 1)

\* lines 27-31: the opening fence
WithoutOpeningFence(r) == IF r # <<>> /\ Head(r) \in {"J", "F"} THEN Tail(r) ELSE r

\* lines 33-34: the closing fence
WithoutClosingFence(r) == IF r # <<>> /\ r[Len(r)] = "F" THEN SubSeq(r, 1, Len(r) - 1) ELSE r

\* lines 24-36
Unfenced(response) == Strip(WithoutClosingFence(WithoutOpeningFence(Strip(response))))

Braces(r, kind) == {i \in 1..Len(r) : r[i] = kind}

\* lines 39-43: response[json_start:json_end], from the first "{" to the last
\* "}"; nothing when one is missing or the last "}" stands before the first "{"
PotentialJson(r) ==
    IF Braces(r, "{") = {} \/ Braces(r, "}") = {} THEN <<>>
    ELSE SubSeq(r, SetMin(Braces(r, "{")), CHOOSE j \in Braces(r, "}") : \A k \in Braces(r, "}") : k <= j)

\* lines 38-57 on the unfenced response
ValidatedJson(r) ==
    IF JsonLoads(PotentialJson(r)) THEN PotentialJson(r)
    ELSE IF JsonLoads(r) THEN r
    ELSE <<>>

CleanAndValidateJson(response) == IF response = <<>> THEN <<>> ELSE ValidatedJson(Unfenced(response))

Responses == UNION {[1..n -> JsonTokens] : n \in 0..MaxJsonLen}

InitJson ==
    /\ PipelineIdle
    /\ \E response \in Responses : sc = [pc |-> "json", response |-> response, called |-> FALSE, result |-> <<>>]

CleanCall ==
    /\ sc.pc = "json"
    /\ ~sc.called
    /\ sc' = [sc EXCEPT !.called = TRUE, !.result = CleanAndValidateJson(sc.response)]
    /\ UNCHANGED <<content_tickers, tickers, parent_of, last, runs>>

NextJson == CleanCall

SpecJson == InitJson /\ [][NextJson]_vars

\* the response holds a structured payload: a JSON object stands somewhere
\* in it
ContainsPayload(response) ==
    \E i, j \in 1..Len(response) : i <= j /\ IsJsonObject(SubSeq(response, i, j))

\* C26: clean_and_validate_json returns a non-empty string that parses as JSON
\* whenever the raw response contains a valid structured payload, bare,
\* code-fenced, or embedded anywhere in surrounding prose (prose that itself
\* contains braces included).
C26_PayloadRecovered ==
    (sc.pc = "json" /\ sc.called /\ ContainsPayload(sc.response)) =>
        sc.result # <<>> /\ JsonLoads(sc.result)

\* what the function returns is empty or parses as JSON
C26_ResultParses == (sc.pc = "json" /\ sc.called /\ sc.result # <<>>) => JsonLoads(sc.result)

\* a payload with no brace in the text around it is recovered
C26_RecoveredFromPlainProse ==
    (sc.pc = "json" /\ sc.called /\ ContainsPayload(sc.response)
     /\ Cardinality(Braces(sc.response, "{")) = 1 /\ Cardinality(Braces(sc.response, "}")) = 1
     /\ \A i \in 1..Len(sc.response) : sc.response[i] \notin {"F", "J", "n"})
        => IsJsonObject(sc.result)

\* the second half of C26: without a structured payload the result is empty
C26_EmptyWithoutPayload ==
    (sc.pc = "json" /\ sc.called /\ ~ContainsPayload(sc.response)) => sc.result = <<>>

(***************************************************************************)
(* A thread of one post and three comments in the live scrape: C1 answers  *)
(* the post, C2 and C3 answer C1.  map_submission runs first, then the     *)
(* loop of map_comments takes the comments in the order of the listing, a  *)
(* parent before its children.  The store has no fault.                    *)
(***************************************************************************)
ScenarioComments == {<<"c", 1>>, <<"c", 2>>, <<"c", 3>>}

ScenarioTree == [c \in ScenarioComments |-> IF c[2] = 1 THEN ThePost ELSE <<"c", 1>>]

EntryAapl == [symbol |-> <<"A", "A", "P", "L">>, name |-> Null]

\* "$tsla GM moon" for the post, "moon" and "AAPL" for the comments
ScenarioPostText == <<"$", "t", "s", "l", "a", " ", "G", "M", " ", "m", "o", "o", "n">>

ScenarioCommentTexts == {<<"m", "o", "o", "n">>, <<"A", "A", "P", "L">>}

ScenarioPostResponses ==
    [ok : {TRUE}, hype_score : {80000}, tickers : {<<>>, <<EntryTsla>>, <<EntryTslaLower>>}]

ScenarioCommentResponses == [ok : {TRUE}, hype_score : {80000}, tickers : {<<>>, <<EntryAapl>>}]

ScenarioHypeResponses == [ok : {TRUE}, value : {10000, 85000}]

InitScenario ==
    /\ content_tickers = {}
    /\ tickers = {}
    /\ parent_of = ScenarioTree
    /\ last = NoRun
    /\ runs = 0
    /\ sc = [pc |-> "scenario", done |-> {},
             direct |-> [c \in ScenarioComments |-> FALSE],
             hype |-> [c \in ScenarioComments |-> 0]]

\* map_submission for the post
ScenarioPost ==
    /\ sc.pc = "scenario"
    /\ sc.done = {}
    /\ \E resp \in ScenarioPostResponses :
          Commit(ThePost, "post",
                 MapTickersWithContext(content_tickers, tickers, "post", ThePost,
                                       ScenarioPostText, Null, resp, <<>>, NoHypeResponse,
                                       NoFault))
    /\ sc' = [sc EXCEPT !.done = {ThePost}]
    /\ UNCHANGED <<parent_of, runs>>

\* the loop body of map_comments (lines 63-88) for the next comment of the
\* listing
ScenarioComment ==
    /\ sc.pc = "scenario"
    /\ ThePost \in sc.done
    /\ \E c \in ScenarioComments \ sc.done, text \in ScenarioCommentTexts, resp \in ScenarioCommentResponses :
        /\ parent_of[c] \in sc.done
        /\ IF ExtractTickers(text, resp) # <<>>
           THEN /\ CommentFallback(c,
                      MapTickersWithContext(content_tickers, tickers, "comment", c, text,
                                            Some(ThePost), resp, <<>>, NoHypeResponse,
                                            NoFault),
                      <<>>, NoFault)
                /\ sc' = [sc EXCEPT !.done = @ \cup {c}, !.direct[c] = TRUE]
           ELSE \E hresp \in ScenarioHypeResponses,
                   post_tickers \in Orderings(PostRows(content_tickers, ThePost)),
                   parents \in OrderingsByConfidenceDesc(
                                   ParentRows(content_tickers, parent_of[c])) :
                   /\ CommentFallback(c,
                         MapTickersWithContext(content_tickers, tickers, "comment", c,
                                               text, Some(ThePost), resp, post_tickers,
                                               hresp, NoFault),
                         parents, NoFault)
                   /\ sc' = [sc EXCEPT !.done = @ \cup {c}, !.hype[c] = hresp.value]
    /\ UNCHANGED <<parent_of, runs>>

NextScenario == ScenarioPost \/ ScenarioComment

SpecScenario == InitScenario /\ [][NextScenario]_vars

Tsla == <<"T", "S", "L", "A">>

\* the thread of the claim: P has the direct TSLA mention at 0.95, C1 gave no
\* direct ticker and was scored 0.85, C2 gave AAPL, C3 gave no direct ticker
\* and was scored 0.1; all four have been processed
ScenarioOfClaim ==
    /\ sc.pc = "scenario"
    /\ sc.done = {ThePost} \cup ScenarioComments
    /\ \E r \in content_tickers :
          /\ RowsOf(content_tickers, "post", ThePost) = {r}
          /\ r["ticker"] = Tsla /\ r["confidence"] = 95000 /\ r["method"] = "llm"
    /\ ~sc.direct[<<"c", 1>>] /\ sc.hype[<<"c", 1>>] = 85000
    /\ sc.direct[<<"c", 2>>]
    /\ ~sc.direct[<<"c", 3>>] /\ sc.hype[<<"c", 3>>] = 10000

\* the only row of unit c: ticker t by the method, at one of the confidences
OnlyRow(c, t, method, confidences) ==
    \E r \in content_tickers :
        /\ RowsOf(content_tickers, "comment", c) = {r}
        /\ r["ticker"] = t /\ r["method"] = method /\ r["confidence"] \in confidences

C27_WitnessDirectLast == ScenarioOfClaim /\ last.unit = <<"c", 2>> /\ last.ctx_calls = 0

\* C29: every ticker mention written to the store has a non-empty, upper-case
\* ticker symbol, whatever the backend reports (a missing, empty or lower-case
\* symbol), for direct and for inherited mentions.
C29_StoredTickerNonEmptyUpperCase ==
    \A r \in content_tickers : Len(r["ticker"]) > 0 /\ r["ticker"] = Upper(r["ticker"])

\* the upper-case half alone: no stored symbol has a lower-case letter
C29_StoredTickerUpperCase == \A r \in content_tickers : r["ticker"] = Upper(r["ticker"])


====
